---- MODULE Spec2Model ----
(***************************************************************************)
(* Daisy-chained haptic actuator node (PIC16F18313 firmware).              *)
(*                                                                         *)
(* The model follows Vibration_Unit.c (src/unnamed/part_000): the UART     *)
(* protocol state machine, the true-sine engine (Timer1 + 64 point table), *)
(* the square engine (Timer2 window 0..199, evaluated in the main loop)    *)
(* and the interrupt / main-loop split.  A second specification follows    *)
(* the sine-only variant Dev/Gabriel/sinus/Centered_Sinus.c.               *)
(*                                                                         *)
(* Execution model (PIC16, one interrupt vector): the interrupt routine    *)
(* runs to completion (GIE is cleared by hardware while it runs), so each  *)
(* invocation of ISR is one step.  The main loop advances one C statement  *)
(* per step and only when no enabled interrupt is pending.                 *)
(***************************************************************************)
EXTENDS Integers, Sequences, FiniteSets, TLC

VARIABLES
    mem,      \* the C globals of the firmware (record, fields named as in the source)
    sfr,      \* the special function registers the firmware writes
    pc,       \* position of the main context (source line of the next statement)
    loc,      \* locals of the main context (on, half, gie)
    tx,       \* bytes loaded into TX1REG by the last receive interrupt
    log,      \* bridge pin configurations after each bridge-driver call of the last step
    step,     \* which handler took the last step
    armed,    \* history: which engine the last STOP / START commit left armed
    relaying, \* history: the last address byte was forwarded (not for this node)
    cmd_duty5,\* history: duty code of the last fully received command (0 after STOP)
    led,      \* history: colour index last handed to sendColor_SPI (-1: none yet)
    ncmd      \* history: number of commands (address bytes) the host has sent

vars == <<mem, sfr, pc, loc, tx, log, step, armed, relaying, cmd_duty5, led, ncmd>>

-----------------------------------------------------------------------------
(* Program constants *)

SINE_LEN == 64
CCP1_PPS_CODE == 12
PPS_CWG1A == 8
PPS_CWG1B == 9
WINDOW_LEN == 200
HALF_WINDOW == 100
PR2_SINE == 199

SINE64_8 ==
    <<   0,  12,  25,  37,  49,  60,  71,  81,
        90,  99, 106, 113, 118, 122, 125, 127,
       127, 127, 125, 122, 118, 113, 106,  99,
        90,  81,  71,  60,  49,  37,  25,  12,
         0, -12, -25, -37, -49, -60, -71, -81,
       -90, -99,-106,-113,-118,-122,-125,-127,
      -127,-127,-125,-122,-118,-113,-106, -99,
       -90, -81, -71, -60, -49, -37, -25, -12 >>

T1_RELOAD ==
    << 65536 - 127, 65536 - 108, 65536 - 92, 65536 - 78,
       65536 - 66,  65536 - 57,  65536 - 49, 65536 - 41 >>

PR_val == << 85, 72, 60, 52, 44, 37, 32, 27 >>

-----------------------------------------------------------------------------
(* Bounds of the exploration *)

\* Under Spec the timers stop rolling over once the engine they clock has
\* advanced this far since it was armed (the full cycles are explored by the
\* single-engine specifications further down).
MaxPhase == 2
MaxWindow == 2

\* Under Spec the host sends at most this many commands.
MaxCmds == 2

\* Under Spec the host sends well-formed commands to this node: STOP (0x00), or
\* START (0x01) followed by a duty byte and a waveform/frequency byte.
AddrBytes == {0, 1}
DutyBytes == {128, 138}
WaveFreqBytes == {131, 138}
RxBytes == AddrBytes \cup DutyBytes \cup WaveFreqBytes

-----------------------------------------------------------------------------
(* Bit helpers on bytes *)

Shr(x, n) == x \div (2 ^ n)
Low(x, n) == x % (2 ^ n)
Bit(x, n) == Shr(x, n) % 2

(* The firmware state threaded through the C functions *)
Mach(m, r, t, l) == [mem |-> m, sfr |-> r, tx |-> t, log |-> l]

Pins(r) == [RA0PPS |-> r.RA0PPS, RA1PPS |-> r.RA1PPS,
            LATA0 |-> r.LATA0, LATA1 |-> r.LATA1]

Logged(s) == [s EXCEPT !.log = Append(@, Pins(s.sfr))]

\* top = 4*(PR2+1)-1, uint16
Top(r) == (4 * (r.PR2 + 1) - 1) % 65536

set_pwm10(s, dc10) ==
    [s EXCEPT !.sfr.pwm = (Shr(dc10, 2) % 256) * 4 + Low(dc10, 2)]

coast_both(s) ==
    Logged([s EXCEPT !.sfr.RA1PPS = 0, !.sfr.LATA1 = 0,
                     !.sfr.RA0PPS = 0, !.sfr.LATA0 = 0])

route_halfcycle(s, sign) ==
    IF sign > 0
    THEN Logged([s EXCEPT !.sfr.RA0PPS = CCP1_PPS_CODE, !.sfr.RA1PPS = 0,
                          !.sfr.LATA1 = 1, !.sfr.LATA0 = 0])
    ELSE Logged([s EXCEPT !.sfr.RA1PPS = CCP1_PPS_CODE, !.sfr.RA0PPS = 0,
                          !.sfr.LATA0 = 1, !.sfr.LATA1 = 0])

t1_apply_reload(s, fidx) ==
    [s EXCEPT !.mem.t1_reload = T1_RELOAD[Low(fidx, 3) + 1],
              !.sfr.TMR1IF = 0, !.sfr.TMR1ON = 1]

lra_set_amp(s, pct0) ==
    LET pct == IF pct0 > 100 THEN 100 ELSE pct0
        top == Top(s.sfr)
        sc  == ((top * pct + 50) \div 100) % 65536
        s1  == [s EXCEPT !.mem.scale = sc]
    IN  IF sc = 0 THEN set_pwm10(coast_both(s1), 0) ELSE s1

\* variant of make_addr_byte that loses the start flag
make_addr_byte_noStart(start, addr6) == (Low(addr6, 6) * 2) % 256

make_addr_byte(start, addr6) == ((Low(addr6, 6) * 2) % 256) + Low(start, 1)

\* UART_Write: spins until the transmitter is idle, then loads TX1REG
UART_Write(s, d) == [s EXCEPT !.tx = Append(@, d)]

\* variant of the duty mapping that scales by 31 instead of 32
DutyMap_div31(d5) == ((d5 * 100) \div 31) % 256

\* duty_pct = (uint8_t)(((uint16_t)duty5_raw * 100u) / 32u)
DutyMap(d5) == ((d5 * 100) \div 32) % 256

-----------------------------------------------------------------------------
(* Protocol state machine *)

IsAddr(b) == Shr(b, 7) = 0
AddrOf(b) == Low(Shr(b, 1), 6)
StartOf(b) == Low(b, 1)
IsStop(b) == IsAddr(b) /\ AddrOf(b) = 0 /\ StartOf(b) = 0
IsStart(b) == IsAddr(b) /\ AddrOf(b) = 0 /\ StartOf(b) = 1
IsForward(b) == IsAddr(b) /\ AddrOf(b) # 0

\* the STOP branch of UART_processing
UartStop(s) ==
    LET s1 == [s EXCEPT !.sfr.TMR1ON = 0, !.sfr.TMR1IE = 0]
        s2 == set_pwm10(coast_both(s1), 0)
        s3 == [s2 EXCEPT !.sfr.TMR2ON = 0, !.sfr.TMR2IE = 0]
        s4 == Logged([s3 EXCEPT !.sfr.RA1PPS = PPS_CWG1A, !.sfr.RA0PPS = PPS_CWG1B,
                                !.sfr.CWG_EN = 1])
    IN  [s4 EXCEPT !.mem.duty_pct = 0, !.mem.cwg_flag = 0, !.mem.duty_flag = 0,
                   !.mem.square_tick = 0, !.mem.uart_led_flag = 1,
                   !.mem.duty5_raw = 0, !.mem.state = 0]

\* the TRUE-SINE branch of the commit
ArmSine(s) ==
    LET s1 == [s EXCEPT !.sfr.TMR2ON = 0, !.sfr.T2CKPS = 0, !.sfr.PR2 = PR2_SINE]
        s2 == set_pwm10(s1, 0)
        s3 == [s2 EXCEPT !.sfr.TMR2IF = 0, !.sfr.TMR2ON = 1]
        s4 == coast_both([s3 EXCEPT !.sfr.CWG_EN = 0])
        s5 == [s4 EXCEPT !.sfr.TMR1ON = 0, !.sfr.TMR1IF = 0, !.sfr.TMR1IE = 1,
                         !.mem.phase_idx = 0, !.mem.last_sign = 0]
        s6 == lra_set_amp(s5, s5.mem.duty_pct)
    IN  t1_apply_reload(s6, s6.mem.freq_index)

\* the SQUARE branch of the commit
ArmSquare(s) ==
    LET s1 == coast_both([s EXCEPT !.sfr.TMR1ON = 0, !.sfr.TMR1IE = 0])
        s2 == Logged([s1 EXCEPT !.sfr.RA1PPS = PPS_CWG1A, !.sfr.RA0PPS = PPS_CWG1B,
                                !.sfr.CWG_EN = 1])
        s3 == [s2 EXCEPT !.sfr.TMR2ON = 0, !.sfr.T2CKPS = 1,
                         !.sfr.PR2 = PR_val[s2.mem.freq_index + 1]]
        s4 == [s3 EXCEPT !.sfr.TMR2IF = 0, !.sfr.TMR2ON = 1, !.sfr.TMR2IE = 1]
    IN  [s4 EXCEPT !.mem.index200 = 0, !.mem.cwg_flag = 0, !.mem.duty_flag = 0,
                   !.mem.square_tick = 0, !.mem.last_sign = 0]

\* variant of the commit that leaves the stage at the second data byte
UartCommit_keepsStage(s) ==
    LET d2 == Low(s.mem.buffer, 7)
        s1 == [s EXCEPT !.mem.wave_mode = Bit(d2, 3), !.mem.freq_index = Low(d2, 3)]
        s2 == [s1 EXCEPT !.mem.duty_pct = DutyMap(s1.mem.duty5_raw),
                         !.mem.uart_led_flag = 1]
    IN  IF s2.mem.wave_mode # 0 THEN ArmSine(s2) ELSE ArmSquare(s2)

\* the state == 2 branch: second data byte, commit of the command
UartCommit(s) ==
    LET d2 == Low(s.mem.buffer, 7)
        s1 == [s EXCEPT !.mem.wave_mode = Bit(d2, 3), !.mem.freq_index = Low(d2, 3)]
        s2 == [s1 EXCEPT !.mem.duty_pct = DutyMap(s1.mem.duty5_raw),
                         !.mem.uart_led_flag = 1]
        s3 == IF s2.mem.wave_mode # 0 THEN ArmSine(s2) ELSE ArmSquare(s2)
    IN  [s3 EXCEPT !.mem.state = 0]

\* variant of UART_processing that leaves the stage alone when it forwards an
\* address byte
UART_processing_keepStage(s) ==
    LET b == s.mem.buffer IN
    IF IsAddr(b)
    THEN IF AddrOf(b) # 0
         THEN UART_Write(s, make_addr_byte(StartOf(b), AddrOf(b) - 1))
         ELSE IF StartOf(b) = 0
              THEN UartStop(s)
              ELSE [s EXCEPT !.mem.state = 1]
    ELSE IF s.mem.state = 0
         THEN UART_Write(s, b)
         ELSE IF s.mem.state = 1
              THEN [s EXCEPT !.mem.duty5_raw = Low(b, 5), !.mem.state = 2]
              ELSE UartCommit(s)

\* variant of UART_processing that maps the duty code as soon as the first data
\* byte is in
UART_processing_eager(s) ==
    LET b == s.mem.buffer IN
    IF IsAddr(b)
    THEN IF AddrOf(b) # 0
         THEN [UART_Write(s, make_addr_byte(StartOf(b), AddrOf(b) - 1))
                 EXCEPT !.mem.state = 0]
         ELSE IF StartOf(b) = 0
              THEN UartStop(s)
              ELSE [s EXCEPT !.mem.state = 1]
    ELSE IF s.mem.state = 0
         THEN UART_Write(s, b)
         ELSE IF s.mem.state = 1
              THEN [s EXCEPT !.mem.duty5_raw = Low(b, 5),
                             !.mem.duty_pct = DutyMap(Low(b, 5)), !.mem.state = 2]
              ELSE UartCommit(s)

\* variant of UART_processing in which an addressed START that arrives while
\* the second data byte is awaited leaves the stage where it is
UART_processing_startKeeps(s) ==
    LET b == s.mem.buffer IN
    IF IsAddr(b)
    THEN IF AddrOf(b) # 0
         THEN [UART_Write(s, make_addr_byte(StartOf(b), AddrOf(b) - 1))
                 EXCEPT !.mem.state = 0]
         ELSE IF StartOf(b) = 0
              THEN UartStop(s)
              ELSE [s EXCEPT !.mem.state = IF @ = 2 THEN 2 ELSE 1]
    ELSE IF s.mem.state = 0
         THEN UART_Write(s, b)
         ELSE IF s.mem.state = 1
              THEN [s EXCEPT !.mem.duty5_raw = Low(b, 5), !.mem.state = 2]
              ELSE UartCommit(s)

\* variant of UART_processing that forwards an address byte without
\* decrementing the chain address
UART_processing_noDecrement(s) ==
    LET b == s.mem.buffer IN
    IF IsAddr(b)
    THEN IF AddrOf(b) # 0
         THEN [UART_Write(s, make_addr_byte(StartOf(b), AddrOf(b)))
                 EXCEPT !.mem.state = 0]
         ELSE IF StartOf(b) = 0
              THEN UartStop(s)
              ELSE [s EXCEPT !.mem.state = 1]
    ELSE IF s.mem.state = 0
         THEN UART_Write(s, b)
         ELSE IF s.mem.state = 1
              THEN [s EXCEPT !.mem.duty5_raw = Low(b, 5), !.mem.state = 2]
              ELSE UartCommit(s)

UART_processing(s) ==
    LET b == s.mem.buffer IN
    IF IsAddr(b)
    THEN IF AddrOf(b) # 0
         THEN [UART_Write(s, make_addr_byte(StartOf(b), AddrOf(b) - 1))
                 EXCEPT !.mem.state = 0]
         ELSE IF StartOf(b) = 0
              THEN UartStop(s)
              ELSE [s EXCEPT !.mem.state = 1]
    ELSE IF s.mem.state = 0
         THEN UART_Write(s, b)
         ELSE IF s.mem.state = 1
              THEN [s EXCEPT !.mem.duty5_raw = Low(b, 5), !.mem.state = 2]
              ELSE UartCommit(s)

-----------------------------------------------------------------------------
(* Interrupt service routine *)

\* variant of the sine tick that re-routes on a sign change without coasting
SineTick_noBreak(s) ==
    LET s1 == [s EXCEPT !.sfr.TMR1IF = 0] IN
    IF s1.mem.wave_mode = 0 THEN s1
    ELSE
    LET i0  == (s1.mem.phase_idx + 1) % 256
        i   == IF i0 >= SINE_LEN THEN 0 ELSE i0
        s8  == SINE64_8[i + 1]
        sgn == IF s8 > 0 THEN 1 ELSE IF s8 < 0 THEN -1 ELSE s1.mem.last_sign
        s2  == [s1 EXCEPT !.mem.phase_idx = i]
    IN  IF s2.mem.scale = 0
        THEN [set_pwm10(coast_both(s2), 0) EXCEPT !.mem.last_sign = sgn]
        ELSE
        LET s3  == IF sgn # s2.mem.last_sign
                   THEN [route_halfcycle(s2, sgn) EXCEPT !.mem.last_sign = sgn]
                   ELSE s2
            mag == IF s8 >= 0 THEN s8 ELSE -s8
            tmp == s3.mem.scale * mag
            df0 == Shr(tmp + 64, 7) % 65536
            top == Top(s3.sfr)
            duty_fwd == IF df0 >= top THEN top ELSE df0
        IN  set_pwm10(s3, top - duty_fwd)

\* variant of the sine tick without the zero-amplitude branch
SineTick_noSilent(s) ==
    LET s1 == [s EXCEPT !.sfr.TMR1IF = 0] IN
    IF s1.mem.wave_mode = 0 THEN s1
    ELSE
    LET i0  == (s1.mem.phase_idx + 1) % 256
        i   == IF i0 >= SINE_LEN THEN 0 ELSE i0
        s8  == SINE64_8[i + 1]
        sgn == IF s8 > 0 THEN 1 ELSE IF s8 < 0 THEN -1 ELSE s1.mem.last_sign
        s2  == [s1 EXCEPT !.mem.phase_idx = i]
        s3  == IF sgn # s2.mem.last_sign
               THEN [route_halfcycle(coast_both(s2), sgn) EXCEPT !.mem.last_sign = sgn]
               ELSE s2
        mag == IF s8 >= 0 THEN s8 ELSE -s8
        tmp == s3.mem.scale * mag
        df0 == Shr(tmp + 64, 7) % 65536
        top == Top(s3.sfr)
        duty_fwd == IF df0 >= top THEN top ELSE df0
    IN  set_pwm10(s3, top - duty_fwd)

\* variant of the sine tick that takes a zero sample for a negative one
SineTick_zeroNegative(s) ==
    LET s1 == [s EXCEPT !.sfr.TMR1IF = 0] IN
    IF s1.mem.wave_mode = 0 THEN s1
    ELSE
    LET i0  == (s1.mem.phase_idx + 1) % 256
        i   == IF i0 >= SINE_LEN THEN 0 ELSE i0
        s8  == SINE64_8[i + 1]
        sgn == IF s8 > 0 THEN 1 ELSE -1
        s2  == [s1 EXCEPT !.mem.phase_idx = i]
    IN  IF s2.mem.scale = 0
        THEN [set_pwm10(coast_both(s2), 0) EXCEPT !.mem.last_sign = sgn]
        ELSE
        LET s3  == IF sgn # s2.mem.last_sign
                   THEN [route_halfcycle(coast_both(s2), sgn) EXCEPT !.mem.last_sign = sgn]
                   ELSE s2
            mag == IF s8 >= 0 THEN s8 ELSE -s8
            tmp == s3.mem.scale * mag
            df0 == Shr(tmp + 64, 7) % 65536
            top == Top(s3.sfr)
            duty_fwd == IF df0 >= top THEN top ELSE df0
        IN  set_pwm10(s3, top - duty_fwd)

\* variant of the sine tick that scales by 64 and does not clamp
SineTick_unclamped64(s) ==
    LET s1 == [s EXCEPT !.sfr.TMR1IF = 0] IN
    IF s1.mem.wave_mode = 0 THEN s1
    ELSE
    LET i0  == (s1.mem.phase_idx + 1) % 256
        i   == IF i0 >= SINE_LEN THEN 0 ELSE i0
        s8  == SINE64_8[i + 1]
        sgn == IF s8 > 0 THEN 1 ELSE IF s8 < 0 THEN -1 ELSE s1.mem.last_sign
        s2  == [s1 EXCEPT !.mem.phase_idx = i]
    IN  IF s2.mem.scale = 0
        THEN [set_pwm10(coast_both(s2), 0) EXCEPT !.mem.last_sign = sgn]
        ELSE
        LET s3  == IF sgn # s2.mem.last_sign
                   THEN [route_halfcycle(coast_both(s2), sgn) EXCEPT !.mem.last_sign = sgn]
                   ELSE s2
            mag == IF s8 >= 0 THEN s8 ELSE -s8
            tmp == s3.mem.scale * mag
            duty_fwd == Shr(tmp + 64, 6) % 65536
            top == Top(s3.sfr)
        IN  set_pwm10(s3, (top - duty_fwd) % 65536)

\* the TMR1IF branch: one tick of the sine engine
SineTick(s) ==
    LET s1 == [s EXCEPT !.sfr.TMR1IF = 0] IN
    IF s1.mem.wave_mode = 0 THEN s1
    ELSE
    LET i0  == (s1.mem.phase_idx + 1) % 256
        i   == IF i0 >= SINE_LEN THEN 0 ELSE i0
        s8  == SINE64_8[i + 1]
        sgn == IF s8 > 0 THEN 1 ELSE IF s8 < 0 THEN -1 ELSE s1.mem.last_sign
        s2  == [s1 EXCEPT !.mem.phase_idx = i]
    IN  IF s2.mem.scale = 0
        THEN [set_pwm10(coast_both(s2), 0) EXCEPT !.mem.last_sign = sgn]
        ELSE
        LET s3  == IF sgn # s2.mem.last_sign
                   THEN [route_halfcycle(coast_both(s2), sgn) EXCEPT !.mem.last_sign = sgn]
                   ELSE s2
            mag == IF s8 >= 0 THEN s8 ELSE -s8
            tmp == s3.mem.scale * mag   \* uint32: scale < 2^16 and mag <= 127, no wrap
            df0 == Shr(tmp + 64, 7) % 65536
            top == Top(s3.sfr)
            duty_fwd == IF df0 >= top THEN top ELSE df0
        IN  set_pwm10(s3, top - duty_fwd)

\* variant of the carrier tick that wraps the window one position late
SquareTick_wrapLate(s) ==
    LET s1 == [s EXCEPT !.sfr.TMR2IF = 0] IN
    IF s1.mem.wave_mode = 0
    THEN LET n == (s1.mem.index200 + 1) % 256 IN
         [s1 EXCEPT !.mem.index200 = IF n = WINDOW_LEN + 1 THEN 0 ELSE n,
                    !.mem.square_tick = 1]
    ELSE s1

\* the TMR2IF branch: one carrier tick, advances the square window
SquareTick(s) ==
    LET s1 == [s EXCEPT !.sfr.TMR2IF = 0] IN
    IF s1.mem.wave_mode = 0
    THEN LET n == (s1.mem.index200 + 1) % 256 IN
         [s1 EXCEPT !.mem.index200 = IF n = WINDOW_LEN THEN 0 ELSE n,
                    !.mem.square_tick = 1]
    ELSE s1

\* variant of the ISR that hands a byte with a framing error to UART_processing
ISR_keepsFerr(s, rcif, ferr, rc1reg) ==
    IF rcif
    THEN UART_processing([s EXCEPT !.sfr.OERR = 0, !.mem.buffer = rc1reg])
    ELSE IF s.sfr.TMR1IF = 1 THEN SineTick(s)
    ELSE IF s.sfr.TMR2IF = 1 THEN SquareTick(s)
    ELSE s

\* void __interrupt() ISR(void); rcif, ferr and rc1reg are what the receiver
\* presents; toggling CREN clears a pending overrun (OERR)
ISR(s, rcif, ferr, rc1reg) ==
    IF rcif
    THEN LET s0 == [s EXCEPT !.sfr.OERR = 0] IN
         IF ferr THEN s0
         ELSE UART_processing([s0 EXCEPT !.mem.buffer = rc1reg])
    ELSE IF s.sfr.TMR1IF = 1 THEN SineTick(s)
    ELSE IF s.sfr.TMR2IF = 1 THEN SquareTick(s)
    ELSE s

\* an enabled timer interrupt is pending (PEIE is set at boot and never cleared)
TimerIntPending ==
    sfr.GIE = 1 /\ (  (sfr.TMR1IF = 1 /\ sfr.TMR1IE = 1)
                   \/ (sfr.TMR2IF = 1 /\ sfr.TMR2IE = 1))

Start0 == Mach(mem, sfr, <<>>, <<>>)

ArmedAfter(b, s0, s1) ==
    IF IsStop(b) THEN "stopped"
    ELSE IF ~IsAddr(b) /\ s0.mem.state = 2
         THEN (IF s1.mem.wave_mode # 0 THEN "sine" ELSE "square")
         ELSE armed

\* the receive interrupt handles byte b (ferr: the byte has a framing error)
RxByte(b, ferr) ==
    /\ sfr.GIE = 1
    /\ LET s1 == ISR(Start0, TRUE, ferr, b) IN
         /\ mem' = s1.mem /\ sfr' = s1.sfr /\ tx' = s1.tx /\ log' = s1.log
         /\ step' = IF ferr THEN "rxerr" ELSE "rx"
         /\ armed' = IF ferr THEN armed ELSE ArmedAfter(b, Start0, s1)
         /\ relaying' = IF ferr \/ ~IsAddr(b) THEN relaying ELSE IsForward(b)
         /\ cmd_duty5' = IF ferr THEN cmd_duty5
                         ELSE IF IsStop(b) THEN 0
                         ELSE IF ~IsAddr(b) /\ mem.state = 2 THEN mem.duty5_raw
                         ELSE cmd_duty5
    /\ UNCHANGED <<pc, loc, led>>

\* what a host that frames its commands correctly may send next
HostMaySend(b) ==
    CASE mem.state = 0 -> b \in AddrBytes /\ ncmd < MaxCmds
      [] mem.state = 1 -> b \in DutyBytes
      [] OTHER         -> b \in WaveFreqBytes

\* a byte of a well-formed command arrives
Rx ==
    \E b \in RxBytes :
       /\ HostMaySend(b)
       /\ RxByte(b, FALSE)
       /\ ncmd' = IF IsAddr(b) THEN ncmd + 1 ELSE ncmd

\* a pending enabled timer interrupt is served
TimerIsr ==
    /\ TimerIntPending
    /\ LET s1 == ISR(Start0, FALSE, FALSE, 0) IN
         /\ mem' = s1.mem /\ sfr' = s1.sfr /\ tx' = s1.tx /\ log' = s1.log
         /\ step' = IF sfr.TMR1IF = 1 THEN "t1" ELSE "t2"
    /\ UNCHANGED <<pc, loc, armed, relaying, cmd_duty5, led, ncmd>>

\* Timer1 rolls over (lim: how far the armed sine engine is followed)
T1Roll(lim) ==
    /\ sfr.TMR1ON = 1 /\ sfr.TMR1IF = 0
    /\ (mem.wave_mode # 0 /\ sfr.TMR1IE = 1) => mem.phase_idx < lim
    /\ sfr' = [sfr EXCEPT !.TMR1IF = 1]
    /\ step' = "hw" /\ tx' = <<>> /\ log' = <<>>
    /\ UNCHANGED <<mem, pc, loc, armed, relaying, cmd_duty5, led, ncmd>>

T1Overflow == T1Roll(MaxPhase)

\* Timer2 matches PR2
T2Overflow ==
    /\ sfr.TMR2ON = 1 /\ sfr.TMR2IF = 0
    /\ (mem.wave_mode = 0 /\ sfr.TMR2IE = 1) => mem.index200 < MaxWindow
    /\ sfr' = [sfr EXCEPT !.TMR2IF = 1]
    /\ step' = "hw" /\ tx' = <<>> /\ log' = <<>>
    /\ UNCHANGED <<mem, pc, loc, armed, relaying, cmd_duty5, led, ncmd>>

-----------------------------------------------------------------------------
(* Main context: one C statement per step, pc names the source line *)

MainRuns == ~TimerIntPending

MainStep(m2, r2, l2, p2) ==
    /\ mem' = m2 /\ sfr' = r2 /\ loc' = l2 /\ pc' = p2
    /\ step' = "main" /\ tx' = <<>> /\ log' = <<>>
    /\ UNCHANGED <<armed, relaying, cmd_duty5, ncmd>>

\* main(): SPI_Init(); set_pwm10(0); before the for(;;) loop
MainBoot ==
    /\ MainRuns /\ pc \in {"L368", "L370"}
    /\ led' = led
    /\ IF pc = "L368"
       THEN MainStep(mem, sfr, loc, "L370")
       ELSE MainStep(mem, set_pwm10(Start0, 0).sfr, loc, "L374")

\* the status LED block of the main loop
MainLed ==
    /\ MainRuns /\ pc \in {"L374", "L375", "L376", "L377", "L379", "L380", "L381"}
    /\ led' = IF pc = "L380" THEN mem.color_index ELSE led
    /\ CASE pc = "L374" ->
              MainStep(mem, sfr, loc, IF mem.uart_led_flag # 0 THEN "L375" ELSE "L385")
         [] pc = "L375" ->
              MainStep([mem EXCEPT !.uart_led_flag = 0], sfr, loc, "L376")
         [] pc = "L376" ->
              MainStep(mem, sfr, loc,
                       IF mem.color_index # mem.duty5_raw THEN "L377" ELSE "L385")
         [] pc = "L377" ->
              MainStep([mem EXCEPT !.color_index = mem.duty5_raw], sfr, loc, "L379")
         [] pc = "L379" ->
              MainStep(mem, [sfr EXCEPT !.GIE = 0], [loc EXCEPT !.gie = sfr.GIE], "L380")
         [] pc = "L380" ->
              MainStep(mem, sfr, loc, "L381")
         [] pc = "L381" ->
              MainStep(mem, [sfr EXCEPT !.GIE = loc.gie], loc, "L385")

\* if (square_tick) { square_processing(); square_tick = 0; }
MainSquareFlag ==
    /\ MainRuns /\ pc \in {"L385", "L387"}
    /\ led' = led
    /\ IF pc = "L385"
       THEN MainStep(mem, sfr, loc, IF mem.square_tick # 0 THEN "L133a" ELSE "L374")
       ELSE MainStep([mem EXCEPT !.square_tick = 0], sfr, loc, "L374")

\* square_processing(): the evaluation of `on` (short-circuit, three volatile reads)
SquareEvalOn ==
    /\ MainRuns /\ pc \in {"L133a", "L133b", "L133c"}
    /\ led' = led
    /\ CASE pc = "L133a" ->
              IF mem.index200 < mem.duty_pct
              THEN MainStep(mem, sfr, [loc EXCEPT !.on = 1], "L137")
              ELSE MainStep(mem, sfr, loc, "L133b")
         [] pc = "L133b" ->
              IF mem.index200 >= HALF_WINDOW
              THEN MainStep(mem, sfr, loc, "L133c")
              ELSE MainStep(mem, sfr, [loc EXCEPT !.on = 0], "L151")
         [] pc = "L133c" ->
              IF mem.index200 < (HALF_WINDOW + mem.duty_pct) % 256
              THEN MainStep(mem, sfr, [loc EXCEPT !.on = 1], "L137")
              ELSE MainStep(mem, sfr, [loc EXCEPT !.on = 0], "L151")

\* square_processing(): the if (on) branch
SquareOn ==
    /\ MainRuns
    /\ pc \in {"L137", "L138", "L139", "L140", "L142", "L143", "L145", "L147", "L148"}
    /\ led' = led
    /\ CASE pc = "L137" ->
              MainStep(mem, sfr,
                       [loc EXCEPT !.half = IF mem.index200 >= HALF_WINDOW THEN 1 ELSE 0],
                       "L138")
         [] pc = "L138" ->
              MainStep(mem, sfr, loc,
                       IF mem.cwg_flag = 0
                          \/ mem.last_sign # (IF loc.half # 0 THEN -1 ELSE 1)
                       THEN "L139" ELSE "L145")
         [] pc = "L139" ->
              MainStep(mem, [sfr EXCEPT !.CWG_EN = 0], loc, "L140")
         [] pc = "L140" ->
              IF loc.half = 0
              THEN MainStep([mem EXCEPT !.last_sign = 1],
                            [sfr EXCEPT !.POLA = 0, !.POLB = 0], loc, "L142")
              ELSE MainStep([mem EXCEPT !.last_sign = -1],
                            [sfr EXCEPT !.POLA = 1, !.POLB = 1], loc, "L142")
         [] pc = "L142" ->
              MainStep(mem, [sfr EXCEPT !.CWG_EN = 1], loc, "L143")
         [] pc = "L143" ->
              MainStep([mem EXCEPT !.cwg_flag = 1], sfr, loc, "L145")
         [] pc = "L145" ->
              MainStep(mem, sfr, loc, IF mem.duty_flag = 0 THEN "L147" ELSE "L387")
         [] pc = "L147" ->
              MainStep(mem, set_pwm10(Start0, Top(sfr)).sfr, loc, "L148")
         [] pc = "L148" ->
              MainStep([mem EXCEPT !.duty_flag = 1], sfr, loc, "L387")

\* variant of the else branch that leaves the duty register as it is
SquareOff_keepsDuty ==
    /\ MainRuns
    /\ pc \in {"L151", "L152", "L153", "L154", "L155", "L157", "L158", "L159"}
    /\ led' = led
    /\ CASE pc = "L151" ->
              MainStep(mem, sfr, loc, IF mem.cwg_flag = 1 THEN "L152" ELSE "L157")
         [] pc = "L152" ->
              MainStep(mem, [sfr EXCEPT !.CWG_EN = 0], loc, "L153")
         [] pc = "L153" ->
              MainStep(mem, [sfr EXCEPT !.TRISA0 = 1], loc, "L154")
         [] pc = "L154" ->
              MainStep(mem, [sfr EXCEPT !.TRISA1 = 1], loc, "L155")
         [] pc = "L155" ->
              MainStep([mem EXCEPT !.cwg_flag = 0], sfr, loc, "L157")
         [] pc = "L157" ->
              MainStep(mem, sfr, loc, IF mem.duty_flag = 1 THEN "L158" ELSE "L387")
         [] pc = "L158" ->
              MainStep(mem, sfr, loc, "L159")
         [] pc = "L159" ->
              MainStep([mem EXCEPT !.duty_flag = 0], sfr, loc, "L387")

\* square_processing(): the else branch
SquareOff ==
    /\ MainRuns
    /\ pc \in {"L151", "L152", "L153", "L154", "L155", "L157", "L158", "L159"}
    /\ led' = led
    /\ CASE pc = "L151" ->
              MainStep(mem, sfr, loc, IF mem.cwg_flag = 1 THEN "L152" ELSE "L157")
         [] pc = "L152" ->
              MainStep(mem, [sfr EXCEPT !.CWG_EN = 0], loc, "L153")
         [] pc = "L153" ->
              MainStep(mem, [sfr EXCEPT !.TRISA0 = 1], loc, "L154")
         [] pc = "L154" ->
              MainStep(mem, [sfr EXCEPT !.TRISA1 = 1], loc, "L155")
         [] pc = "L155" ->
              MainStep([mem EXCEPT !.cwg_flag = 0], sfr, loc, "L157")
         [] pc = "L157" ->
              MainStep(mem, sfr, loc, IF mem.duty_flag = 1 THEN "L158" ELSE "L387")
         [] pc = "L158" ->
              MainStep(mem, set_pwm10(Start0, 0).sfr, loc, "L159")
         [] pc = "L159" ->
              MainStep([mem EXCEPT !.duty_flag = 0], sfr, loc, "L387")

-----------------------------------------------------------------------------
(* The state at the end of pwm_cwg_init(): interrupts just enabled *)

Init ==
    /\ mem = [buffer |-> 0, state |-> 0, wave_mode |-> 1, duty5_raw |-> 0,
              duty_pct |-> 0, freq_index |-> 3, uart_led_flag |-> 0,
              color_index |-> 0, phase_idx |-> 0, last_sign |-> 0,
              t1_reload |-> 0, scale |-> 0, index200 |-> 0, cwg_flag |-> 0,
              duty_flag |-> 0, square_tick |-> 0]
    /\ sfr = [RA0PPS |-> 0, RA1PPS |-> 0, LATA0 |-> 0, LATA1 |-> 0,
              TRISA0 |-> 0, TRISA1 |-> 0, CWG_EN |-> 0, POLA |-> 0, POLB |-> 0,
              pwm |-> 0, PR2 |-> PR2_SINE, T2CKPS |-> 0,
              TMR1ON |-> 0, TMR1IE |-> 0, TMR1IF |-> 0,
              TMR2ON |-> 0, TMR2IE |-> 0, TMR2IF |-> 0,
              GIE |-> 1, OERR |-> 0]
    /\ pc = "L368"
    /\ loc = [on |-> 0, half |-> 0, gie |-> 0]
    /\ tx = <<>> /\ log = <<>>
    /\ step = "boot" /\ armed = "boot" /\ relaying = FALSE
    /\ cmd_duty5 = 0 /\ led = -1 /\ ncmd = 0

Next ==
    \/ Rx
    \/ TimerIsr
    \/ T1Overflow
    \/ T2Overflow
    \/ MainBoot
    \/ MainLed
    \/ MainSquareFlag
    \/ SquareEvalOn
    \/ SquareOn
    \/ SquareOff

Spec == Init /\ [][Next]_vars

-----------------------------------------------------------------------------
(* Observations used by the properties *)

\* both bridge legs driven from their latches at the same level, no CCP1 / CWG
\* output routed to either pin
Coasted(r) == r.RA0PPS = 0 /\ r.RA1PPS = 0 /\ r.LATA0 = r.LATA1

\* everything that decides what the two bridge pins present
Bridge(r) == <<r.RA0PPS, r.RA1PPS, r.LATA0, r.LATA1, r.TRISA0, r.TRISA1,
               r.CWG_EN, r.POLA, r.POLB>>

CommandState(m) == <<m.wave_mode, m.duty5_raw, m.duty_pct, m.freq_index>>

SquarePcs == {"L133a", "L133b", "L133c", "L137", "L138", "L139", "L140", "L142",
              "L143", "L145", "L147", "L148", "L151", "L152", "L153", "L154",
              "L155", "L157", "L158", "L159"}

-----------------------------------------------------------------------------
(* C1 *)

\* C1: when the interrupt that processed an addressed STOP has returned, the
\* Timer1 run bit and interrupt enable are off, the Timer2 interrupt enable is
\* off, the bridge is coasted (no peripheral routed to either leg, both legs at
\* the same level), the duty register is 0, duty_pct is 0 and the stage is Idle.
C1_StopIsSafeState ==
    (step = "rx" /\ IsStop(mem.buffer)) =>
        /\ sfr.TMR1ON = 0 /\ sfr.TMR1IE = 0
        /\ sfr.TMR2IE = 0
        /\ Coasted(sfr)
        /\ sfr.pwm = 0
        /\ mem.duty_pct = 0
        /\ mem.state = 0

-----------------------------------------------------------------------------
(* C2 *)

\* C2: between the return of the interrupt that processed a STOP and the next
\* START commit, no step of the main context and no timer interrupt takes the
\* bridge out of coast or leaves a non-zero value in the duty register.
C2_StopNotUndone ==
    [][ (armed = "stopped" /\ armed' = "stopped" /\ step' \in {"main", "t1", "t2"})
          => /\ sfr'.pwm = 0
             /\ Coasted(sfr) => Coasted(sfr') ]_vars

-----------------------------------------------------------------------------
(* C4 *)

\* C4: while one engine is armed the tick logic of the other engine writes
\* neither engine state nor the bridge: with the sine engine armed no main
\* context step (square window evaluation) changes them, with the square
\* engine armed no Timer1 interrupt changes them.
EngineAndBridge ==
    <<mem.phase_idx, mem.last_sign, mem.scale, mem.index200, mem.cwg_flag,
      mem.duty_flag, Bridge(sfr), sfr.pwm>>

C4_OneEngineLive ==
    [][ /\ (armed = "sine" /\ armed' = "sine" /\ step' = "main" /\ pc \in SquarePcs)
            => UNCHANGED EngineAndBridge
        /\ (armed = "square" /\ armed' = "square" /\ step' = "t1")
            => UNCHANGED EngineAndBridge ]_vars

-----------------------------------------------------------------------------
(* C10 *)

\* C10: once a START has committed duty code 0 with the sine waveform, every
\* Timer1 tick of the armed sine engine ends with the bridge coasted and the
\* duty register at 0.
C10_SilentSine ==
    (step = "t1" /\ armed = "sine" /\ cmd_duty5 = 0) =>
        (Coasted(sfr) /\ sfr.pwm = 0)

\* a sine tick has run with zero amplitude
C10_Witness ==
    /\ step = "t1" /\ armed = "sine" /\ cmd_duty5 = 0
    /\ mem.scale = 0 /\ mem.duty_pct = 0 /\ mem.phase_idx = 2

-----------------------------------------------------------------------------
(* SpecUart: the protocol state machine alone, fed any sequence of bytes (any  *)
(* address byte, framing errors, ill-formed commands); no timer runs.          *)

\* STOP, START, and chain addresses 1, 2, 32 and 63 with either start flag
UartAddrBytes == {0, 1, 2, 3, 4, 5, 64, 65, 126, 127}
UartDataBytes == {128, 131, 138, 159}

RxAny ==
    /\ \E b \in UartAddrBytes \cup UartDataBytes, ferr \in BOOLEAN : RxByte(b, ferr)
    /\ UNCHANGED ncmd

SpecUart == Init /\ [][RxAny]_vars

-----------------------------------------------------------------------------
(* C5 *)

\* C5: handling an address byte with chain address k > 0 and start flag f loads
\* exactly one byte into the transmitter, the address byte (bit 7 clear) with
\* chain address k-1 and start flag f, and leaves waveform, duty code, duty_pct
\* and freq_index as they were.
C5_ForwardDecrements ==
    [][ (step' = "rx" /\ IsForward(mem'.buffer))
          => /\ tx' = << 2 * (AddrOf(mem'.buffer) - 1) + StartOf(mem'.buffer) >>
             /\ tx'[1] < 128
             /\ CommandState(mem') = CommandState(mem) ]_vars

\* the highest chain address has been forwarded while a START was half received
C5_Witness ==
    /\ step = "rx" /\ mem.buffer = 127 /\ tx = <<125>>
    /\ mem.duty5_raw = 10 /\ mem.state = 0 /\ armed = "sine"

-----------------------------------------------------------------------------
(* C6 *)

\* C6: after an address byte was forwarded, every data byte received before the
\* next address byte is loaded into the transmitter unchanged (one byte out per
\* byte in, inside the interrupt that received it) and changes nothing else:
\* not the stage, not the command state, not a register.
C6_RelayUnchanged ==
    [][ (relaying /\ step' = "rx" /\ ~IsAddr(mem'.buffer))
          => /\ tx' = << mem'.buffer >>
             /\ mem' = [mem EXCEPT !.buffer = mem'.buffer]
             /\ sfr' = sfr
             /\ relaying' ]_vars

\* a data byte that would be a valid duty byte was relayed after a forward
C6_Witness ==
    /\ relaying /\ step = "rx" /\ mem.buffer = 138 /\ tx = <<138>>
    /\ mem.state = 0 /\ mem.duty5_raw # 10

-----------------------------------------------------------------------------
(* C7 *)

\* C7: address byte 0x01 puts the stage at AwaitDuty; data byte 0x8A received
\* there stores duty code 10 and puts the stage at AwaitWaveFreq; data byte 0x83
\* received there commits duty code 10, waveform square, freq_index 3,
\* duty_pct = 10*100/32 = 31, arms the square engine (Timer2 on with its
\* interrupt, PR2 = 52 = entry 3 of the period table, Timer1 off) with
\* index200 = 0, and puts the stage back at Idle.
C7_StartSquareScenario ==
    [][ step' = "rx" =>
          /\ (mem'.buffer = 1 => mem'.state = 1)
          /\ (mem.state = 1 /\ mem'.buffer = 138
                => mem'.state = 2 /\ mem'.duty5_raw = 10)
          /\ (mem.state = 2 /\ mem.duty5_raw = 10 /\ mem'.buffer = 131
                => /\ mem'.state = 0
                   /\ mem'.duty5_raw = 10 /\ mem'.wave_mode = 0
                   /\ mem'.freq_index = 3 /\ mem'.duty_pct = 31
                   /\ mem'.index200 = 0
                   /\ sfr'.PR2 = 52 /\ sfr'.TMR2ON = 1 /\ sfr'.TMR2IE = 1
                   /\ sfr'.TMR1ON = 0 /\ sfr'.TMR1IE = 0
                   /\ armed' = "square") ]_vars

\* the scenario has run to its commit
C7_Witness ==
    /\ step = "rx" /\ mem.buffer = 131 /\ armed = "square" /\ cmd_duty5 = 10
    /\ mem.state = 0 /\ mem.duty_pct = 31 /\ mem.freq_index = 3 /\ sfr.PR2 = 52

-----------------------------------------------------------------------------
(* C8 *)

\* C8: duty_pct always equals the mapped value (code*100/32) of the duty code
\* of the last fully received command (0 after STOP or boot), and it changes
\* only in the interrupt that handles the second data byte of a START or a STOP.
C8_DutyPctAtomic ==
    /\ [](mem.duty_pct = (cmd_duty5 * 100) \div 32)
    /\ [][ mem'.duty_pct # mem.duty_pct
             => /\ step' = "rx"
                /\ \/ (mem.state = 2 /\ ~IsAddr(mem'.buffer))
                   \/ IsStop(mem'.buffer) ]_vars

\* the first data byte of a new command is in, with another duty code than the
\* committed one, and duty_pct still is the committed command's
C8_Witness ==
    /\ step = "rx" /\ mem.state = 2 /\ mem.duty5_raw = 3
    /\ cmd_duty5 = 10 /\ mem.duty_pct = 31

-----------------------------------------------------------------------------
(* SpecSine: the host sends one sine START and the engine runs freely through  *)
(* whole periods of the table.                                                 *)

SineDutyBytes == {128, 129, 138, 159}
SineWaveFreqBytes == {138, 143}

RxSineStart ==
    \E b \in {1} \cup SineDutyBytes \cup SineWaveFreqBytes :
       /\ CASE mem.state = 0 -> b = 1 /\ ncmd = 0
            [] mem.state = 1 -> b \in SineDutyBytes
            [] OTHER         -> b \in SineWaveFreqBytes
       /\ RxByte(b, FALSE)
       /\ ncmd' = IF IsAddr(b) THEN ncmd + 1 ELSE ncmd

T1Free == T1Roll(SINE_LEN)

NextSine ==
    \/ RxSineStart
    \/ TimerIsr
    \/ T1Free
    \/ T2Overflow
    \/ MainBoot
    \/ MainLed
    \/ MainSquareFlag

SpecSine == Init /\ [][NextSine]_vars

-----------------------------------------------------------------------------
(* C3 *)

\* which leg the CCP1 carrier is routed to
CarrierLeg(r) ==
    CASE r.RA0PPS = CCP1_PPS_CODE /\ r.RA1PPS = CCP1_PPS_CODE -> "both"
      [] r.RA0PPS = CCP1_PPS_CODE -> "RA0"
      [] r.RA1PPS = CCP1_PPS_CODE -> "RA1"
      [] OTHER -> "none"

CoastedPins(p) == p.RA0PPS = 0 /\ p.RA1PPS = 0 /\ p.LATA0 = p.LATA1

\* sign of table sample i, or keep when the sample is 0
SignAt(i, keep) ==
    IF SINE64_8[i + 1] > 0 THEN 1 ELSE IF SINE64_8[i + 1] < 0 THEN -1 ELSE keep

\* C3: on every tick of the armed sine engine (amplitude > 0) whose sign differs
\* from last_sign, the bridge is first coasted and only then the carrier is
\* routed to the leg of the new sign; and no step at all moves the carrier from
\* one leg to the other without a coasted configuration in between, nor ever
\* routes it to both legs.
C3_BreakBeforeMake ==
    [][ /\ (step' = "t1" /\ armed = "sine" /\ mem.scale > 0
              /\ SignAt(mem'.phase_idx, mem.last_sign) # mem.last_sign)
           => /\ Len(log') = 2
              /\ CoastedPins(log'[1])
              /\ log'[2] = Pins(sfr')
              /\ CarrierLeg(sfr') =
                    (IF SignAt(mem'.phase_idx, mem.last_sign) > 0 THEN "RA0" ELSE "RA1")
              /\ mem'.last_sign = SignAt(mem'.phase_idx, mem.last_sign)
        /\ (CarrierLeg(sfr) \in {"RA0", "RA1"} /\ CarrierLeg(sfr') \in {"RA0", "RA1"}
              /\ CarrierLeg(sfr') # CarrierLeg(sfr))
           => \E i \in 1 .. Len(log') - 1 : CoastedPins(log'[i])
        /\ CarrierLeg(sfr') # "both" ]_vars

\* the tick at the first negative sample has moved the carrier from RA0 to RA1
C3_Witness ==
    /\ step = "t1" /\ armed = "sine" /\ mem.scale > 0
    /\ mem.phase_idx = 33 /\ mem.last_sign = -1
    /\ CarrierLeg(sfr) = "RA1" /\ Len(log) = 2 /\ CoastedPins(log[1])

-----------------------------------------------------------------------------
(* The sine-only firmware variant Dev/Gabriel/sinus/Centered_Sinus.c.          *)
(* Its globals live in the same variables; mem holds that program's globals.   *)

cs_SINE_LEN == 24
cs_MIN_DRIVE_TICKS == 2

cs_SIN ==
    <<    0,   267,   517,   728,   885,   975,  1023,   975,
        885,   728,   517,   267,     0,  -267,  -517,  -728,
       -885,  -975, -1023,  -975,  -885,  -728,  -517,  -267 >>

cs_FREQ_HZ == << 123, 145, 170, 200, 235, 275, 322, 384 >>

\* CCPR1H = d >> 8; CCPR1L = d & 0xFF
cs_set_pwm10(s, d) == [s EXCEPT !.sfr.pwm = (Shr(d, 8) % 256) * 256 + Low(d, 8)]

cs_coast_both(s) ==
    Logged([s EXCEPT !.sfr.RA1PPS = 0, !.sfr.LATA1 = 0,
                     !.sfr.RA0PPS = 0, !.sfr.LATA0 = 0])

cs_route_halfcycle(s, sign) ==
    IF sign > 0
    THEN Logged([s EXCEPT !.sfr.LATA1 = 1, !.sfr.RA0PPS = CCP1_PPS_CODE])
    ELSE Logged([s EXCEPT !.sfr.LATA0 = 1, !.sfr.RA1PPS = CCP1_PPS_CODE])

cs_t1_set_freq(s, freq_hz0) ==
    LET freq_hz == IF freq_hz0 = 0 THEN 1 ELSE freq_hz0
        Fs == freq_hz * cs_SINE_LEN
        t0 == (1000000 + Fs \div 2) \div Fs
        ticks == IF t0 < 5 THEN 5 ELSE IF t0 > 60000 THEN 60000 ELSE t0
    IN  [s EXCEPT !.mem.t1_reload = (65536 - ticks) % 65536,
                  !.sfr.TMR1IF = 0, !.sfr.TMR1ON = 1]

cs_lra_set_amp(s, amp0) ==
    LET amp == IF amp0 > 100 THEN 100 ELSE amp0
        sc  == ((s.mem.duty_max * amp) \div 100) % 65536
        s1  == [s EXCEPT !.mem.scale = sc]
    IN  IF sc = 0 THEN cs_set_pwm10(cs_coast_both(s1), 0) ELSE s1

cs_map5bit_to_0_99(v0) ==
    LET v == IF v0 > 31 THEN 31 ELSE v0 IN ((v * 99 + 15) \div 31) % 256

cs_make_addr_byte(start, addr) == (Low(start, 1) + addr * 2) % 256

cs_UART_processing(s) ==
    LET b == s.mem.buffer IN
    IF Shr(b, 7) = 0
    THEN LET addr == Shr(b, 1)  start == Low(b, 1) IN
         IF addr # 0
         THEN UART_Write([s EXCEPT !.mem.state = 0], cs_make_addr_byte(start, addr - 1))
         ELSE IF start = 0
              THEN LET s1 == [s EXCEPT !.mem.state = 0, !.sfr.TMR1ON = 0]
                       s2 == cs_set_pwm10(cs_coast_both(s1), 0)
                   IN  [s2 EXCEPT !.mem.duty_cycle = 0, !.mem.duty_index = 0]
              ELSE [s EXCEPT !.mem.state = 1]
    ELSE CASE s.mem.state = 0 -> UART_Write(s, b)
           [] s.mem.state = 1 -> [s EXCEPT !.mem.temp_duty5 = Low(b, 5), !.mem.state = 2]
           [] s.mem.state = 2 ->
                LET dc0 == cs_map5bit_to_0_99(s.mem.temp_duty5)
                    dc  == IF dc0 > 99 THEN 99 ELSE dc0
                    s1  == [s EXCEPT !.mem.freq_index = Low(b, 3), !.mem.duty_cycle = dc]
                    s2  == cs_lra_set_amp(s1, dc)
                    s3  == cs_t1_set_freq(s2, cs_FREQ_HZ[s2.mem.freq_index + 1])
                    di0 == ((dc * 16) \div 100) % 256
                IN  [s3 EXCEPT !.mem.phase_idx = 0, !.mem.last_sign = 0,
                               !.mem.duty_index = IF di0 > 15 THEN 15 ELSE di0,
                               !.mem.state = 0]
           [] OTHER -> [s EXCEPT !.mem.state = 0]

cs_SineTick(s) ==
    LET s1  == [s EXCEPT !.sfr.TMR1IF = 0]
        i0  == (s1.mem.phase_idx + 1) % 256
        i   == IF i0 >= cs_SINE_LEN THEN 0 ELSE i0
        sv  == cs_SIN[i + 1]
        sign == IF sv > 0 THEN 1 ELSE IF sv < 0 THEN -1 ELSE s1.mem.last_sign
        s2  == [s1 EXCEPT !.mem.phase_idx = i]
    IN  IF s2.mem.scale = 0
        THEN [cs_set_pwm10(cs_coast_both(s2), 0) EXCEPT !.mem.last_sign = sign]
        ELSE
        LET s3  == IF sign # s2.mem.last_sign
                   THEN [cs_route_halfcycle(cs_coast_both(s2), sign)
                           EXCEPT !.mem.last_sign = sign]
                   ELSE s2
            mag == IF sv >= 0 THEN sv ELSE -sv
            tmp == s3.mem.scale * mag + 512
            duty_forward == Shr(tmp, 10) % 65536
        IN  IF duty_forward <= cs_MIN_DRIVE_TICKS
            THEN cs_set_pwm10(s3, s3.mem.duty_max)
            ELSE cs_set_pwm10(s3, (s3.mem.duty_max - duty_forward) % 65536)

cs_ISR(s, rcif, ferr, rc1reg) ==
    IF rcif
    THEN IF ferr THEN s
         ELSE [cs_UART_processing([s EXCEPT !.mem.buffer = rc1reg])
                 EXCEPT !.mem.uart_recv_flag = 1]
    ELSE IF s.sfr.TMR1IF = 1 THEN cs_SineTick(s)
    ELSE s

\* a byte of a well-formed command arrives and the receive interrupt handles it
cs_Rx ==
    \E b \in RxBytes :
       /\ HostMaySend(b)
       /\ sfr.GIE = 1
       /\ LET s1 == cs_ISR(Start0, TRUE, FALSE, b) IN
            /\ mem' = s1.mem /\ sfr' = s1.sfr /\ tx' = s1.tx /\ log' = s1.log
            /\ armed' = IF IsStop(b) THEN "stopped"
                        ELSE IF ~IsAddr(b) /\ mem.state = 2 THEN "sine" ELSE armed
            /\ cmd_duty5' = IF IsStop(b) THEN 0
                            ELSE IF ~IsAddr(b) /\ mem.state = 2 THEN mem.temp_duty5
                            ELSE cmd_duty5
       /\ step' = "rx"
       /\ relaying' = IF IsAddr(b) THEN IsForward(b) ELSE relaying
       /\ ncmd' = IF IsAddr(b) THEN ncmd + 1 ELSE ncmd
       /\ UNCHANGED <<pc, loc, led>>

\* the pending Timer1 interrupt is served (TMR1IE is set at boot and stays set)
cs_TimerIsr ==
    /\ sfr.GIE = 1 /\ sfr.TMR1IF = 1 /\ sfr.TMR1IE = 1
    /\ LET s1 == cs_ISR(Start0, FALSE, FALSE, 0) IN
         /\ mem' = s1.mem /\ sfr' = s1.sfr /\ tx' = s1.tx /\ log' = s1.log
    /\ step' = "t1"
    /\ UNCHANGED <<pc, loc, armed, relaying, cmd_duty5, led, ncmd>>

\* Timer1 rolls over
cs_T1Overflow ==
    /\ sfr.TMR1ON = 1 /\ sfr.TMR1IF = 0
    /\ sfr' = [sfr EXCEPT !.TMR1IF = 1]
    /\ step' = "hw" /\ tx' = <<>> /\ log' = <<>>
    /\ UNCHANGED <<mem, pc, loc, armed, relaying, cmd_duty5, led, ncmd>>

\* main(): SPI_Init(), then the LED loop
cs_Main ==
    /\ ~(sfr.GIE = 1 /\ sfr.TMR1IF = 1 /\ sfr.TMR1IE = 1)
    /\ led' = IF pc = "cs346" THEN loc.color ELSE led
    /\ CASE pc = "cs338" -> MainStep(mem, sfr, loc, "cs341")
         [] pc = "cs341" ->
              MainStep(mem, sfr, loc, IF mem.uart_recv_flag # 0 THEN "cs342" ELSE "cs341")
         [] pc = "cs342" ->
              MainStep([mem EXCEPT !.uart_recv_flag = 0], sfr, loc, "cs343")
         [] pc = "cs343" ->
              MainStep(mem, sfr, loc,
                       IF mem.color_index # mem.duty_index THEN "cs344" ELSE "cs341")
         [] pc = "cs344" ->
              MainStep([mem EXCEPT !.color_index = mem.duty_index], sfr, loc, "cs345")
         [] pc = "cs345" ->
              MainStep(mem, sfr, [loc EXCEPT !.color = mem.duty_index], "cs346")
         [] pc = "cs346" ->
              MainStep(mem, sfr, loc, "cs341")

\* the state after lra_init() and usart_init()
cs_Init ==
    /\ mem = [buffer |-> 0, uart_recv_flag |-> 0, duty_cycle |-> 0, duty_index |-> 0,
              freq_index |-> 3, state |-> 0, temp_duty5 |-> 0, color_index |-> 0,
              phase_idx |-> 0, last_sign |-> 0, t1_reload |-> 0,
              duty_max |-> 4 * (PR2_SINE + 1) - 1, scale |-> 0]
    /\ sfr = [RA0PPS |-> 0, RA1PPS |-> 0, LATA0 |-> 0, LATA1 |-> 0,
              TRISA0 |-> 0, TRISA1 |-> 0, CWG_EN |-> 0, POLA |-> 0, POLB |-> 0,
              pwm |-> 0, PR2 |-> PR2_SINE, T2CKPS |-> 0,
              TMR1ON |-> 0, TMR1IE |-> 1, TMR1IF |-> 0,
              TMR2ON |-> 1, TMR2IE |-> 0, TMR2IF |-> 0,
              GIE |-> 1]
    /\ pc = "cs338"
    /\ loc = [color |-> 0]
    /\ tx = <<>> /\ log = <<>>
    /\ step = "boot" /\ armed = "boot" /\ relaying = FALSE
    /\ cmd_duty5 = 0 /\ led = -1 /\ ncmd = 0

cs_Next ==
    \/ cs_Rx
    \/ cs_TimerIsr
    \/ cs_T1Overflow
    \/ cs_Main

SpecCS == cs_Init /\ [][cs_Next]_vars

-----------------------------------------------------------------------------
(* C9 *)

\* C9: after a STOP has been processed and until the next START commits, no
\* Timer1 interrupt changes the duty register or the routing of the legs, also
\* when that interrupt was already pending while the STOP was processed.
C9_NoTickAfterStop ==
    [][ (armed = "stopped" /\ armed' = "stopped" /\ step' = "t1")
          => (sfr'.pwm = sfr.pwm /\ Pins(sfr') = Pins(sfr)) ]_vars

-----------------------------------------------------------------------------
(* SpecSquare: the host sends one square START and the engine runs through     *)
(* whole 200-tick windows. The main loop keeps up with Timer2: a window        *)
(* evaluation is over before the next match (the shortest Timer2 period is     *)
(* 4 * (27 + 1) instruction cycles).                                           *)

SquareDutyBytes == {128, 129, 138, 159}
SquareWaveFreqBytes == {131, 135}

RxSquareStart ==
    \E b \in {1} \cup SquareDutyBytes \cup SquareWaveFreqBytes :
       /\ CASE mem.state = 0 -> b = 1 /\ ncmd = 0
            [] mem.state = 1 -> b \in SquareDutyBytes
            [] OTHER         -> b \in SquareWaveFreqBytes
       /\ RxByte(b, FALSE)
       /\ ncmd' = IF IsAddr(b) THEN ncmd + 1 ELSE ncmd

\* Timer2 matches PR2 while the main loop is polling square_tick
T2Paced ==
    /\ sfr.TMR2ON = 1 /\ sfr.TMR2IF = 0
    /\ mem.square_tick = 0 /\ pc \notin SquarePcs /\ pc # "L387"
    /\ sfr' = [sfr EXCEPT !.TMR2IF = 1]
    /\ step' = "hw" /\ tx' = <<>> /\ log' = <<>>
    /\ UNCHANGED <<mem, pc, loc, armed, relaying, cmd_duty5, led, ncmd>>

NextSquare ==
    \/ RxSquareStart
    \/ TimerIsr
    \/ T2Paced
    \/ MainBoot
    \/ MainLed
    \/ MainSquareFlag
    \/ SquareEvalOn
    \/ SquareOn
    \/ SquareOff

SpecSquare == Init /\ [][NextSquare]_vars

-----------------------------------------------------------------------------
(* Observations of the square engine *)

\* the two pins are outputs
PinsDriven(r) == r.TRISA0 = 0 /\ r.TRISA1 = 0

\* the CWG (half-bridge mode: CWG1B is the complement of CWG1A) is enabled and
\* routed to the two pins, which are outputs: the legs are complementary
LegsComplementary(r) ==
    /\ r.CWG_EN = 1 /\ r.RA1PPS = PPS_CWG1A /\ r.RA0PPS = PPS_CWG1B
    /\ r.POLA = r.POLB
    /\ PinsDriven(r)

\* ON state of the square engine: complementary legs at full-scale duty
SquareDrives(r) == LegsComplementary(r) /\ r.pwm = Top(r)

\* the ON windows of the 200-tick cycle: 0..d-1 and 100..100+d-1
InOnWindow(i, d) == i < d \/ (i >= HALF_WINDOW /\ i < HALF_WINDOW + d)

-----------------------------------------------------------------------------
(* C11 *)

\* C11: with the square engine armed, when the window evaluation of a tick is
\* over the bridge is in the ON state (complementary legs, full-scale duty)
\* exactly if the window position is in 0..d-1 or 100..100+d-1, d = duty_pct;
\* so a 200-tick cycle has 2d ON ticks and 200-2d OFF ticks.
C11_SquareWindow ==
    (armed = "square" /\ step = "main" /\ pc = "L387")
        => (SquareDrives(sfr) <=> InOnWindow(mem.index200, mem.duty_pct))

-----------------------------------------------------------------------------
(* C12 *)

\* what a STOP is to leave behind: command state, bridge, duty register and
\* the run and interrupt enable bits of both timers
StopOutcome(m, r) ==
    <<m.duty_pct, m.duty5_raw, m.state, Coasted(r), r.pwm,
      r.TMR1ON, r.TMR1IE, r.TMR2ON, r.TMR2IE>>

\* C12: the interrupt that processed a STOP always returns with the same
\* outcome, whatever was armed before: duty_pct 0, duty code 0, stage Idle,
\* bridge coasted, duty register 0, both timers stopped with their interrupts
\* disabled; and a STOP handled directly after a STOP changes nothing.
C12_StopSameOutcome ==
    /\ []((step = "rx" /\ IsStop(mem.buffer))
            => StopOutcome(mem, sfr) = <<0, 0, 0, TRUE, 0, 0, 0, 0, 0>>)
    /\ [][ (step = "rx" /\ IsStop(mem.buffer) /\ step' = "rx" /\ IsStop(mem'.buffer))
             => (mem' = mem /\ sfr' = sfr) ]_vars

-----------------------------------------------------------------------------
(* C13 *)

\* the interrupt that just returned committed a START (second data byte)
Committed(m0, m1) == ~IsAddr(m1.buffer) /\ m0.state = 2

\* C13: when a START commits while an engine is armed, the interrupt that
\* commits it coasts the bridge, stops the old engine (sine: Timer1 and its
\* interrupt unless sine is armed again; square: the Timer2 tick interrupt
\* unless square is armed again) and leaves the new engine in its reset state
\* (sine: phase_idx 0, last_sign 0; square: index200 0, cwg_flag 0,
\* duty_flag 0); and a window evaluation that was under way when the commit
\* came in writes neither the bridge nor the duty register of the new engine.
C13_TeardownThenArm ==
    [][ /\ (step' = "rx" /\ Committed(mem, mem') /\ armed \in {"sine", "square"})
           => /\ \E i \in 1 .. Len(log') : CoastedPins(log'[i])
              /\ (armed = "sine" /\ armed' = "square")
                    => (sfr'.TMR1ON = 0 /\ sfr'.TMR1IE = 0)
              /\ (armed = "square" /\ armed' = "sine") => sfr'.TMR2IE = 0
              /\ armed' = "sine" => (mem'.phase_idx = 0 /\ mem'.last_sign = 0)
              /\ armed' = "square"
                    => (mem'.index200 = 0 /\ mem'.cwg_flag = 0 /\ mem'.duty_flag = 0)
        /\ (armed = "square" /\ step' = "main" /\ pc \in SquarePcs
              /\ mem.square_tick = 0)
           => (Bridge(sfr') = Bridge(sfr) /\ sfr'.pwm = sfr.pwm) ]_vars

-----------------------------------------------------------------------------
(* C14 *)

\* the statements of square_processing() after `on` is computed
SquareBranchPcs == SquarePcs \ {"L133a", "L133b", "L133c"}

\* C14: every Timer1 tick of the armed sine engine and every Timer2 tick of
\* the armed square engine runs with the waveform, duty_pct, freq_index and the
\* values derived from them (scale, t1_reload, PR2) of the START that armed the
\* engine; and a window evaluation of the main loop that goes on after a START
\* committed (square_tick is clear: no tick since the commit) acts on the `on`
\* of the committed command's duty_pct and window position, not on one
\* computed from values read before the commit.
C14_TickSeesWholeCommand ==
    /\ []((step = "t1" /\ armed = "sine")
            => /\ mem.wave_mode = 1
               /\ mem.duty_pct = DutyMap(cmd_duty5)
               /\ mem.scale = (Top(sfr) * mem.duty_pct + 50) \div 100
               /\ mem.t1_reload = T1_RELOAD[mem.freq_index + 1])
    /\ []((step = "t2" /\ armed = "square")
            => /\ mem.wave_mode = 0
               /\ mem.duty_pct = DutyMap(cmd_duty5)
               /\ sfr.PR2 = PR_val[mem.freq_index + 1])
    /\ [][ (armed = "square" /\ step' = "main" /\ pc \in SquareBranchPcs
              /\ mem.square_tick = 0)
             => loc.on = (IF InOnWindow(mem.index200, mem.duty_pct) THEN 1 ELSE 0) ]_vars

-----------------------------------------------------------------------------
(* The duty mappings of the firmware variants, applied to every duty code *)

\* Dev/G/3bytes_archives/equilibre.c
eq_MAP_SINE ==
    << 15, 17, 20, 22, 25, 28, 30, 33,
       36, 38, 41, 44, 46, 49, 52, 54,
       57, 60, 62, 65, 68, 70, 73, 76,
       78, 81, 84, 86, 89, 92, 94, 97 >>

eq_MAP_SQUARE ==
    << 10, 12, 14, 16, 19, 21, 23, 26,
       28, 30, 32, 35, 37, 39, 42, 44,
       46, 48, 51, 53, 55, 58, 60, 62,
       65, 70, 75, 80, 85, 90, 95, 100 >>

\* variant of the mapping of equilibre.c without its special case for code 0
eq_duty_pct_noZero(wave, d5raw) ==
    LET d5 == IF d5raw > 31 THEN 31 ELSE d5raw IN
    IF wave = 1 THEN eq_MAP_SINE[d5 + 1] ELSE eq_MAP_SQUARE[d5 + 1]

\* the commit of equilibre.c: index clamp, 0 for code 0, else the table
eq_duty_pct(wave, d5raw) ==
    LET d5 == IF d5raw > 31 THEN 31 ELSE d5raw IN
    IF d5 = 0 THEN 0
    ELSE IF wave = 1 THEN eq_MAP_SINE[d5 + 1] ELSE eq_MAP_SQUARE[d5 + 1]

\* Dev/G/archives/unit/unit.ino
unit_LUT_SINE ==
    <<  0,  4,  5,  7,  9, 11, 13, 15,
       17, 20, 23, 26, 29, 32, 35, 39,
       42, 46, 50, 54, 58, 62, 66, 71,
       75, 80, 85, 90, 95, 97, 99, 100 >>

unit_LUT_SQUARE ==
    <<  0,  6,  7,  8,  9, 10, 11, 12,
       13, 14, 15, 16, 17, 18, 19, 19,
       20, 26, 32, 38, 44, 50, 56, 62,
       68, 73, 78, 83, 88, 92, 96, 100 >>

unit_duty_pct(wave, d5raw) ==
    LET d5 == IF d5raw > 31 THEN 31 ELSE d5raw IN
    IF wave # 0 THEN unit_LUT_SINE[d5 + 1] ELSE unit_LUT_SQUARE[d5 + 1]

MapVariants == {"Vibration_Unit", "equilibre", "unit"}

\* the duty_pct the commit of variant v stores for waveform bit wave and duty
\* code d5raw
MapOf(v, wave, d5raw) ==
    CASE v = "Vibration_Unit" -> DutyMap(d5raw)
      [] v = "equilibre"      -> eq_duty_pct(wave, d5raw)
      [] OTHER                -> unit_duty_pct(wave, d5raw)

\* a second data byte is about to commit: any variant, waveform and duty code
MapInit ==
    /\ \E v \in MapVariants, w \in {0, 1}, d \in 0 .. 31 :
          /\ mem = [wave_mode |-> w, duty5_raw |-> d, duty_pct |-> 0]
          /\ loc = [variant |-> v]
    /\ sfr = [GIE |-> 1]
    /\ pc = "commit"
    /\ tx = <<>> /\ log = <<>>
    /\ step = "boot" /\ armed = "boot" /\ relaying = FALSE
    /\ cmd_duty5 = 0 /\ led = -1 /\ ncmd = 0

\* the commit stores the mapped duty
MapCommit ==
    /\ pc = "commit"
    /\ mem' = [mem EXCEPT !.duty_pct = MapOf(loc.variant, mem.wave_mode, mem.duty5_raw)]
    /\ pc' = "done" /\ step' = "rx" /\ cmd_duty5' = mem.duty5_raw
    /\ UNCHANGED <<sfr, loc, tx, log, armed, relaying, led, ncmd>>

SpecMap == MapInit /\ [][MapCommit]_vars

-----------------------------------------------------------------------------
(* C15 *)

\* C15: in every variant and for either waveform the committed duty_pct is 0
\* for duty code 0, is not above the duty_pct of the next duty code, and is at
\* most 100 for duty code 31.
C15_DutyMapMonotone ==
    pc = "done" =>
        /\ (mem.duty5_raw = 0 => mem.duty_pct = 0)
        /\ (mem.duty5_raw < 31
              => mem.duty_pct <= MapOf(loc.variant, mem.wave_mode, mem.duty5_raw + 1))
        /\ (mem.duty5_raw = 31 => mem.duty_pct <= 100)

\* the table variant has committed duty code 31 with its largest entry, 100
C15_Witness ==
    /\ pc = "done" /\ loc.variant = "equilibre" /\ mem.wave_mode = 0
    /\ mem.duty5_raw = 31 /\ mem.duty_pct = 100

-----------------------------------------------------------------------------
(* The earlier square-only firmware main_fixed.c (unnamed/part_012): boot,     *)
(* receive interrupt, Timer2 interrupt and main loop. mem holds that program's *)
(* globals, sfr the registers it writes; pc starts at the first line of main.  *)

p12_PR_val == << 85, 72, 60, 52, 44, 37, 32, 27 >>

\* enum { CMD_COUNT_REQUEST = 0xFE, CMD_COUNT_RESPONSE = 0xFD }
p12_CMD_COUNT_REQUEST == 254
p12_CMD_COUNT_RESPONSE == 253

\* count_timeout = 200 on a count request
p12_COUNT_TIMEOUT == 200

p12_UART_Write(s, d) == [s EXCEPT !.tx = Append(@, d)]

\* void UART_processing(void); parity_ok: getParity(buffer) == parity
p12_UART_processing(s, parity_ok) ==
    LET b == s.mem.buffer IN
    IF ~parity_ok THEN s
    ELSE IF b = p12_CMD_COUNT_REQUEST
    THEN p12_UART_Write([s EXCEPT !.mem.count_mode = 1,
                                  !.mem.count_timeout = p12_COUNT_TIMEOUT,
                                  !.mem.my_address = 0], p12_CMD_COUNT_REQUEST)
    ELSE IF b = p12_CMD_COUNT_RESPONSE
    THEN IF s.mem.count_mode # 0
         THEN p12_UART_Write([s EXCEPT !.mem.my_address = (@ + 1) % 256,
                                       !.mem.count_mode = 0], p12_CMD_COUNT_RESPONSE)
         ELSE p12_UART_Write(s, p12_CMD_COUNT_RESPONSE)
    ELSE IF s.mem.count_mode # 0 /\ s.mem.count_timeout = 0
    THEN p12_UART_Write([s EXCEPT !.mem.my_address = 0, !.mem.count_mode = 0],
                        p12_CMD_COUNT_RESPONSE)
    ELSE IF Shr(b, 7) = 0
    THEN LET addr   == Low(Shr(b, 1), 6)
             startF == Low(b, 1)
             s1     == [s EXCEPT !.mem.data_stage = 0]
         IN  IF addr = s1.mem.my_address
             THEN IF startF # 0
                  THEN [s1 EXCEPT !.mem.state = startF,
                                  !.sfr.TRISA0 = 0, !.sfr.TRISA1 = 0, !.sfr.TMR2ON = 1]
                  ELSE [s1 EXCEPT !.mem.state = startF,
                                  !.sfr.TMR2ON = 0, !.sfr.TRISA0 = 1, !.sfr.TRISA1 = 1,
                                  !.mem.duty_index = 0]
             ELSE IF addr > 0
                  THEN p12_UART_Write([s1 EXCEPT !.mem.state = 0],
                                      (((addr - 1) * 2) % 256) + startF)
                  ELSE s1
    ELSE IF s.mem.state = 0
    THEN p12_UART_Write([s EXCEPT !.mem.data_stage = 0], b)
    ELSE IF s.mem.data_stage = 0
    THEN [s EXCEPT !.mem.data1 = b, !.mem.data_stage = 1]
    ELSE LET low  == Low(Shr(s.mem.data1, 3), 5)
             high == Low(b, 3)
             di0  == ((high * 32) % 256) + low
             di   == IF di0 > 99 THEN 99 ELSE di0
             fi   == Low(Shr(b, 3), 3)
         IN  [s EXCEPT !.mem.data_stage = 0, !.mem.duty_index = di,
                       !.mem.duty_cycle = di, !.mem.freq_index = fi,
                       !.sfr.PR2 = p12_PR_val[fi + 1], !.mem.state = 0]

\* void __interrupt() ISR(void)
p12_ISR(s, rcif, parity_ok, rc1reg) ==
    IF rcif
    THEN [p12_UART_processing([s EXCEPT !.mem.buffer = rc1reg], parity_ok)
            EXCEPT !.mem.uart_recv_flag = 1]
    ELSE IF s.sfr.TMR2IF = 1
    THEN LET n == (s.mem.index + 1) % 256 IN
         [s EXCEPT !.sfr.TMR2IF = 0,
                   !.mem.index = IF n >= 200 THEN 0 ELSE n,
                   !.mem.ccp_flag = 1,
                   !.mem.count_timeout =
                       IF s.mem.count_mode # 0 /\ @ > 0 THEN @ - 1 ELSE @]
    ELSE s

p12_Start0 == [mem |-> mem, sfr |-> sfr, tx |-> <<>>]

\* bytes the upstream node sends: STOP, START, a forward, a data byte, a count
\* request
p12_RxBytes == {0, 1, 3, 138, 254}

\* the receive interrupt handles a byte
p12_Rx ==
    /\ sfr.GIE = 1 /\ sfr.PEIE = 1 /\ sfr.RCIE = 1
    /\ ncmd <= MaxCmds
    /\ \E b \in p12_RxBytes, parity_ok \in BOOLEAN :
          LET s1 == p12_ISR(p12_Start0, TRUE, parity_ok, b) IN
            /\ mem' = s1.mem /\ sfr' = s1.sfr /\ tx' = s1.tx
    /\ step' = "rx" /\ ncmd' = ncmd + 1 /\ log' = <<>>
    /\ UNCHANGED <<pc, loc, armed, relaying, cmd_duty5, led>>

\* Timer2 matches PR2
p12_T2Overflow ==
    /\ sfr.TMR2ON = 1 /\ sfr.TMR2IF = 0
    /\ mem.index < MaxWindow
    /\ sfr' = [sfr EXCEPT !.TMR2IF = 1]
    /\ step' = "hw" /\ tx' = <<>> /\ log' = <<>>
    /\ UNCHANGED <<mem, pc, loc, armed, relaying, cmd_duty5, led, ncmd>>

p12_TimerIntPending ==
    sfr.GIE = 1 /\ sfr.PEIE = 1 /\ sfr.TMR2IF = 1 /\ sfr.TMR2IE = 1

\* the pending Timer2 interrupt is served
p12_TimerIsr ==
    /\ p12_TimerIntPending
    /\ LET s1 == p12_ISR(p12_Start0, FALSE, FALSE, 0) IN
         /\ mem' = s1.mem /\ sfr' = s1.sfr /\ tx' = s1.tx
    /\ step' = "t2" /\ log' = <<>>
    /\ UNCHANGED <<pc, loc, armed, relaying, cmd_duty5, led, ncmd>>

p12_MainStep(m2, r2, p2) ==
    /\ ~p12_TimerIntPending
    /\ mem' = m2 /\ sfr' = r2 /\ pc' = p2
    /\ step' = "main" /\ tx' = <<>> /\ log' = <<>>
    /\ UNCHANGED <<loc, armed, relaying, cmd_duty5, led, ncmd>>

\* main() up to the while (1): init_ccp_cwg() (interrupts are off until its
\* last statements, T2CON = 0b10000001 leaves TMR2ON clear), usart_init(),
\* SPI_Init(), then the assignments of lines 319-327
p12_MainBoot ==
    CASE pc = "p315" ->
           p12_MainStep(mem,
                        [sfr EXCEPT !.TRISA0 = 0, !.TRISA1 = 0,
                                    !.RA1PPS = PPS_CWG1A, !.RA0PPS = PPS_CWG1B,
                                    !.TMR2ON = 0, !.T2CKPS = 1,
                                    !.PR2 = p12_PR_val[mem.freq_index + 1],
                                    !.TMR2IE = 1, !.POLB = 0, !.CWG_EN = 1,
                                    !.GIE = 1, !.PEIE = 1],
                        "p316")
      [] pc = "p316" -> p12_MainStep(mem, [sfr EXCEPT !.RCIE = 1], "p317")
      [] pc = "p317" -> p12_MainStep(mem, sfr, "p319")
      [] pc = "p319" -> p12_MainStep(mem, [sfr EXCEPT !.TRISA0 = 0], "p320")
      [] pc = "p320" -> p12_MainStep(mem, [sfr EXCEPT !.TRISA1 = 0], "p321")
      [] pc = "p321" -> p12_MainStep(mem, [sfr EXCEPT !.TMR2ON = 1], "p323")
      [] pc = "p323" -> p12_MainStep([mem EXCEPT !.duty_cycle = 100], sfr, "p324")
      [] pc = "p324" -> p12_MainStep([mem EXCEPT !.duty_index = 100], sfr, "p326")
      [] pc = "p326" -> p12_MainStep([mem EXCEPT !.freq_index = 2], sfr, "p327")
      [] pc = "p327" ->
           p12_MainStep(mem, [sfr EXCEPT !.PR2 = p12_PR_val[mem.freq_index + 1]], "p333")
      [] OTHER -> FALSE

\* the CWG block of CCP_processing()
p12_CwgBlock(m, r) ==
    IF m.index < m.duty_cycle \/ (m.index >= 100 /\ m.index < m.duty_cycle + 100)
    THEN IF m.cwg_flag = 0
         THEN <<[m EXCEPT !.cwg_flag = 1], [r EXCEPT !.POLB = 0, !.CWG_EN = 1]>>
         ELSE <<m, r>>
    ELSE IF m.cwg_flag # 0
         THEN <<[m EXCEPT !.cwg_flag = 0], [r EXCEPT !.POLB = 1, !.CWG_EN = 1]>>
         ELSE <<m, r>>

\* the CCP1 duty block of CCP_processing()
p12_DutyBlock(m, r) ==
    IF m.index < m.duty_cycle
    THEN IF m.duty_flag = 0
         THEN <<[m EXCEPT !.duty_flag = 1],
                [r EXCEPT !.CCPR1H = p12_PR_val[m.freq_index + 1], !.CCPR1L = 0]>>
         ELSE <<m, r>>
    ELSE IF m.duty_flag # 0
         THEN <<[m EXCEPT !.duty_flag = 0], [r EXCEPT !.CCPR1H = 0, !.CCPR1L = 64]>>
         ELSE <<m, r>>

\* the while (1) loop of main; CCP_processing() is taken in two steps, its CWG
\* block and its duty block
p12_MainLoop ==
    CASE pc = "p333" ->
           p12_MainStep(mem, sfr, IF mem.uart_recv_flag # 0 THEN "p334" ELSE "p341")
      [] pc = "p334" ->
           p12_MainStep([mem EXCEPT !.uart_recv_flag = 0], sfr, "p335")
      [] pc = "p335" ->
           p12_MainStep([mem EXCEPT !.color_index = mem.duty_index], sfr, "p341")
      [] pc = "p341" ->
           p12_MainStep(mem, sfr, IF mem.ccp_flag # 0 THEN "p256" ELSE "p333")
      [] pc = "p256" ->
           p12_MainStep(p12_CwgBlock(mem, sfr)[1], p12_CwgBlock(mem, sfr)[2], "p272")
      [] pc = "p272" ->
           p12_MainStep(p12_DutyBlock(mem, sfr)[1], p12_DutyBlock(mem, sfr)[2], "p343")
      [] pc = "p343" ->
           p12_MainStep([mem EXCEPT !.ccp_flag = 0], sfr, "p333")
      [] OTHER -> FALSE

\* the state at reset, before main runs: globals as initialised, pins inputs,
\* nothing routed, every interrupt enable clear
p12_Init ==
    /\ mem = [buffer |-> 0, uart_recv_flag |-> 0, data_stage |-> 0, data1 |-> 0,
              duty_index |-> 0, duty_cycle |-> 0, freq_index |-> 3,
              ccp_flag |-> 0, cwg_flag |-> 0, duty_flag |-> 0, index |-> 0,
              state |-> 0, color_index |-> 0, count_mode |-> 0,
              count_timeout |-> 0, my_address |-> 0]
    /\ sfr = [TRISA0 |-> 1, TRISA1 |-> 1, RA0PPS |-> 0, RA1PPS |-> 0,
              LATA0 |-> 0, LATA1 |-> 0,
              T2CKPS |-> 0, TMR2ON |-> 0, PR2 |-> 255, TMR2IE |-> 0, TMR2IF |-> 0,
              CWG_EN |-> 0, POLB |-> 0, CCPR1H |-> 0, CCPR1L |-> 0,
              GIE |-> 0, PEIE |-> 0, RCIE |-> 0]
    /\ pc = "p315"
    /\ loc = [gie |-> 0]
    /\ tx = <<>> /\ log = <<>>
    /\ step = "boot" /\ armed = "boot" /\ relaying = FALSE
    /\ cmd_duty5 = 0 /\ led = -1 /\ ncmd = 0

p12_Next ==
    \/ p12_Rx
    \/ p12_TimerIsr
    \/ p12_T2Overflow
    \/ p12_MainBoot
    \/ p12_MainLoop

SpecP12 == p12_Init /\ [][p12_Next]_vars

-----------------------------------------------------------------------------
(* C16 *)

\* C16: when the first received byte is handled, the boot code has left the
\* safety-stop state: the engine's tick interrupt is disabled, no peripheral
\* is routed to either leg and both legs are at the same level, the duty
\* register is 0, the commanded duty is 0 and the stage is Idle.
C16_SafeBeforeFirstByte ==
    [][ (step' = "rx" /\ ncmd = 0)
          => /\ sfr.TMR2IE = 0
             /\ Coasted(sfr)
             /\ sfr.CCPR1H = 0 /\ sfr.CCPR1L = 0
             /\ mem.duty_cycle = 0
             /\ mem.state = 0 /\ mem.data_stage = 0 ]_vars

-----------------------------------------------------------------------------
(* SpecErr: the protocol state machine fed any sequence of bytes, with framing *)
(* errors and receiver overruns.                                               *)

\* the receiver overruns: a byte arrives while its FIFO is full
RxOverrun ==
    /\ sfr.OERR = 0
    /\ sfr' = [sfr EXCEPT !.OERR = 1]
    /\ step' = "hw" /\ tx' = <<>> /\ log' = <<>>
    /\ UNCHANGED <<mem, pc, loc, armed, relaying, cmd_duty5, led, ncmd>>

NextErr ==
    \/ RxAny
    \/ RxOverrun

SpecErr == Init /\ [][NextErr]_vars

-----------------------------------------------------------------------------
(* C17 *)

\* C17: the interrupt that finds a framing error loads nothing into the
\* transmitter and changes no global (stage, duty code, command state, not
\* even buffer) and no register but the overrun bit; the interrupt that finds
\* an overrun clears it, and what it then does with the byte is what it does
\* with that byte when there was no overrun.
C17_ErrorsDiscarded ==
    [][ /\ step' = "rxerr"
           => /\ tx' = <<>>
              /\ mem' = mem
              /\ sfr' = [sfr EXCEPT !.OERR = 0]
              /\ relaying' = relaying /\ armed' = armed /\ cmd_duty5' = cmd_duty5
        /\ (sfr.OERR = 1 /\ step' \in {"rx", "rxerr"})
           => /\ sfr'.OERR = 0
              /\ step' = "rx"
                   => LET s1 == UART_processing(
                                   [Mach(mem, [sfr EXCEPT !.OERR = 0], <<>>, <<>>)
                                      EXCEPT !.mem.buffer = mem'.buffer])
                      IN  mem' = s1.mem /\ sfr' = s1.sfr /\ tx' = s1.tx ]_vars

\* a byte with a framing error arrived where the second data byte of a START
\* was due, and the stage and the duty code received so far are still there
C17_Witness ==
    /\ step = "rxerr" /\ mem.state = 2 /\ mem.duty5_raw = 10
    /\ sfr.OERR = 0 /\ armed = "boot" /\ tx = <<>>

-----------------------------------------------------------------------------
(* C18 *)

\* C18: whatever the stage, the interrupt that handles an address byte leaves
\* the stage that this byte alone decides (AwaitDuty for an addressed START,
\* Idle for a forward or an addressed STOP); and unless the byte is a STOP it
\* commits nothing of a command it interrupts: waveform, duty_pct, freq_index,
\* the armed engine and every register stay as they were.
C18_AddressResyncs ==
    [][ (step' = "rx" /\ IsAddr(mem'.buffer))
          => /\ mem'.state = (IF IsStart(mem'.buffer) THEN 1 ELSE 0)
             /\ ~IsStop(mem'.buffer)
                  => /\ mem'.wave_mode = mem.wave_mode
                     /\ mem'.duty_pct = mem.duty_pct
                     /\ mem'.freq_index = mem.freq_index
                     /\ mem'.duty5_raw = mem.duty5_raw
                     /\ armed' = armed /\ cmd_duty5' = cmd_duty5
                     /\ sfr' = sfr ]_vars

\* an addressed START arrived where the second data byte of an earlier START
\* (duty code 10, never committed) was due
C18_Witness ==
    /\ step = "rx" /\ mem.buffer = 1 /\ mem.state = 1
    /\ mem.duty5_raw = 10 /\ cmd_duty5 = 0 /\ armed = "boot" /\ mem.duty_pct = 0

-----------------------------------------------------------------------------
(* C19 *)

\* the window positions at which the ON/OFF state or the half changes for
\* duty_pct d, and position 1, the first one evaluated after arming
EdgePositions(d) == {0, 1, d, HALF_WINDOW, HALF_WINDOW + d}

\* C19: with the square engine armed, when the evaluation of a tick in an ON
\* window is over the legs are complementary, with POLA = POLB = 0 in the
\* first half (positions below 100) and POLA = POLB = 1 in the second; the
\* polarity bits change only while the CWG is disabled; and the main loop
\* changes polarity, CWG enable or duty register only at a position where the
\* ON/OFF state or the half changes.
C19_SquarePolarity ==
    /\ []((armed = "square" /\ step = "main" /\ pc = "L387"
             /\ InOnWindow(mem.index200, mem.duty_pct))
            => /\ LegsComplementary(sfr)
               /\ sfr.POLA = (IF mem.index200 >= HALF_WINDOW THEN 1 ELSE 0)
               /\ sfr.POLB = sfr.POLA)
    /\ [][ (sfr'.POLA # sfr.POLA \/ sfr'.POLB # sfr.POLB) => sfr.CWG_EN = 0 ]_vars
    /\ [][ (armed = "square" /\ step' = "main" /\ pc \in SquarePcs
              /\ (sfr'.POLA # sfr.POLA \/ sfr'.POLB # sfr.POLB
                    \/ sfr'.CWG_EN # sfr.CWG_EN \/ sfr'.pwm # sfr.pwm))
             => mem.index200 \in EdgePositions(mem.duty_pct) ]_vars

-----------------------------------------------------------------------------
(* C20 *)

\* C20: with the square engine armed, once an ON window has been driven
\* (last_sign is set), whenever the evaluation of a tick in an OFF window is
\* over the CWG is disabled, so the legs are not complementary (no
\* differential drive), and the duty register is 0.
C20_OffWindowNeutral ==
    (armed = "square" /\ step = "main" /\ pc = "L387"
       /\ ~InOnWindow(mem.index200, mem.duty_pct) /\ mem.last_sign # 0)
        => (sfr.CWG_EN = 0 /\ ~LegsComplementary(sfr) /\ sfr.pwm = 0)

\* the evaluation at position 150, in the OFF window after the second ON
\* window of duty_pct 31, is over
C20_Witness ==
    /\ armed = "square" /\ step = "main" /\ pc = "L387"
    /\ mem.index200 = 150 /\ mem.duty_pct = 31 /\ mem.last_sign = -1
    /\ sfr.CWG_EN = 0 /\ sfr.pwm = 0

-----------------------------------------------------------------------------
(* C21 *)

\* the main context is at its call of sendColor_SPI (Vibration_Unit.c line 380,
\* Centered_Sinus.c line 346)
SendPcs == {"L380", "cs346"}

\* the steps that are a run of the interrupt routine
HandlerSteps == {"rx", "rxerr", "t1", "t2"}

\* C21: while the main context is at the status LED send the global interrupt
\* enable is clear and no interrupt handler runs; the send is entered with the
\* interrupt enable saved and left with the saved value written back, so the
\* interrupt enable after the send is the one before it.
C21_SendMasked ==
    /\ [](pc \in SendPcs => sfr.GIE = 0)
    /\ [][ (pc \in SendPcs) => (step' \notin HandlerSteps) ]_vars
    /\ [][ (pc = "L379" /\ pc' = "L380") => (loc'.gie = sfr.GIE) ]_vars
    /\ [][ (pc = "L380" /\ pc' = "L381") => (loc'.gie = loc.gie) ]_vars
    /\ [][ (pc = "L381" /\ pc' # "L381") => (sfr'.GIE = loc.gie) ]_vars

-----------------------------------------------------------------------------
(* The firmware variant Dev/G/archives/unit/unit.ino: its protocol state       *)
(* machine and the status LED block of its main loop. mem holds that program's *)
(* globals. No timer runs (square_tick stays clear), and the main loop is      *)
(* through its LED block before the next byte is in: a byte takes 87 us at     *)
(* 115200 baud.                                                                *)

unit_PR_val == << 85, 72, 60, 52, 44, 37, 32, 27 >>

unit_T1_RELOAD == << 65409, 65428, 65444, 65458, 65470, 65479, 65487, 65495 >>

\* CCPR1H = dc10 >> 2; CCPR1L = (dc10 & 3) << 6
unit_set_pwm10_isr(s, dc10) ==
    [s EXCEPT !.sfr.pwm = (Shr(dc10, 2) % 256) * 4 + Low(dc10, 2)]

unit_COAST_MACRO(s) ==
    Logged([s EXCEPT !.sfr.RA1PPS = 0, !.sfr.LATA1 = 0,
                     !.sfr.RA0PPS = 0, !.sfr.LATA0 = 0])

\* top is the literal 799 in this variant
unit_lra_set_amp(s, pct0) ==
    LET pct == IF pct0 > 100 THEN 100 ELSE pct0
        sc  == ((799 * pct + 50) \div 100) % 65536
        s1  == [s EXCEPT !.mem.scale = sc]
    IN  IF sc = 0 THEN unit_set_pwm10_isr(unit_COAST_MACRO(s1), 0) ELSE s1

\* the STOP branch
unit_UartStop(s) ==
    LET s1 == [s EXCEPT !.sfr.TMR1ON = 0, !.sfr.TMR1IE = 0]
        s2 == unit_set_pwm10_isr(unit_COAST_MACRO(s1), 0)
        s3 == [s2 EXCEPT !.sfr.TMR2ON = 0, !.sfr.TMR2IE = 0, !.sfr.CWG_EN = 0]
    IN  [s3 EXCEPT !.mem.duty_pct = 0, !.mem.cwg_flag = 0, !.mem.duty_flag = 0,
                   !.mem.square_tick = 0, !.mem.duty5_raw = 0,
                   !.mem.uart_led_flag = 1, !.mem.state = 0]

\* the second data byte: decode, map the duty code, raise the LED flag, arm
unit_UartCommit(s) ==
    LET d2 == Low(s.mem.buffer, 7)
        d5 == IF s.mem.duty5_raw > 31 THEN 31 ELSE s.mem.duty5_raw
        s1 == [s EXCEPT !.mem.wave_mode = Bit(d2, 3), !.mem.freq_index = Low(d2, 3),
                        !.mem.duty5_raw = d5]
        s2 == [s1 EXCEPT !.mem.duty_pct = unit_duty_pct(s1.mem.wave_mode, d5),
                         !.mem.uart_led_flag = 1]
    IN  IF s2.mem.wave_mode # 0
        THEN LET a1 == [s2 EXCEPT !.sfr.TMR2ON = 0, !.sfr.T2CKPS = 0, !.sfr.PR2 = 199]
                 a2 == unit_set_pwm10_isr(a1, 0)
                 a3 == [a2 EXCEPT !.sfr.TMR2IF = 0, !.sfr.TMR2ON = 1, !.sfr.CWG_EN = 0]
                 a4 == unit_COAST_MACRO(a3)
                 a5 == [a4 EXCEPT !.sfr.TMR1ON = 0, !.sfr.TMR1IF = 0, !.sfr.TMR1IE = 1,
                                  !.mem.phase_idx = 0, !.mem.last_sign = 0]
                 a6 == unit_lra_set_amp(a5, a5.mem.duty_pct)
             IN  [a6 EXCEPT !.mem.t1_reload = unit_T1_RELOAD[a6.mem.freq_index + 1],
                            !.sfr.TMR1IF = 0, !.sfr.TMR1ON = 1, !.mem.state = 0]
        ELSE LET b1 == unit_COAST_MACRO([s2 EXCEPT !.sfr.TMR1ON = 0, !.sfr.TMR1IE = 0])
                 b2 == [b1 EXCEPT !.sfr.RA1PPS = 8, !.sfr.RA0PPS = 9, !.sfr.CWG_EN = 1]
                 b3 == [b2 EXCEPT !.sfr.TMR2ON = 0, !.sfr.T2CKPS = 1,
                                  !.sfr.PR2 = unit_PR_val[b2.mem.freq_index + 1]]
                 b4 == [b3 EXCEPT !.sfr.TMR2IF = 0, !.sfr.TMR2ON = 1, !.sfr.TMR2IE = 1]
             IN  [b4 EXCEPT !.mem.index200 = 0, !.mem.cwg_flag = 0, !.mem.duty_flag = 0,
                            !.mem.square_tick = 0, !.mem.last_sign = 0, !.mem.state = 0]

unit_UART_processing(s) ==
    LET b == s.mem.buffer IN
    IF Shr(b, 7) = 0
    THEN LET addr == Low(Shr(b, 1), 6)  start == Low(b, 1) IN
         IF addr # 0
         THEN [UART_Write(s, (((addr - 1) * 2) % 256) + start) EXCEPT !.mem.state = 0]
         ELSE IF start = 0 THEN unit_UartStop(s)
              ELSE [s EXCEPT !.mem.state = 1]
    ELSE IF s.mem.state = 0
         THEN UART_Write(s, b)
         ELSE IF s.mem.state = 1
              THEN [s EXCEPT !.mem.duty5_raw = Low(b, 5), !.mem.state = 2]
              ELSE unit_UartCommit(s)

\* the RCIF branch of the ISR, for a byte without receiver error
unit_ISR(s, rc1reg) == unit_UART_processing([s EXCEPT !.mem.buffer = rc1reg])

\* STOP, START, a forward; duty codes 0, 10, 11; square and sine at freq_index 3
unit_RxBytes == {0, 1, 3, 128, 138, 139, 131}

\* the main loop is polling its flags
unit_MainIdle == pc = "u375" /\ mem.uart_led_flag = 0

\* the receive interrupt handles a byte
unit_Rx ==
    /\ sfr.GIE = 1 /\ unit_MainIdle
    /\ \E b \in unit_RxBytes :
          LET s1 == unit_ISR(Start0, b) IN
            /\ mem' = s1.mem /\ sfr' = s1.sfr /\ tx' = s1.tx /\ log' = s1.log
            /\ armed' = IF IsStop(b) THEN "stopped"
                        ELSE IF ~IsAddr(b) /\ mem.state = 2
                             THEN (IF s1.mem.wave_mode # 0 THEN "sine" ELSE "square")
                             ELSE armed
            /\ cmd_duty5' = IF IsStop(b) THEN 0
                            ELSE IF ~IsAddr(b) /\ mem.state = 2 THEN s1.mem.duty5_raw
                            ELSE cmd_duty5
            /\ relaying' = IF IsAddr(b) THEN IsForward(b) ELSE relaying
    /\ step' = "rx"
    /\ UNCHANGED <<pc, loc, led, ncmd>>

\* the for (;;) loop of main; update_led_color() picks the colour of
\* KEY16[idx32 >> 1]; led records the duty code whose colour is sent
unit_MainLoop ==
    /\ led' = IF pc = "u379" THEN loc.idx32 ELSE led
    /\ CASE pc = "u375" ->
              /\ mem.uart_led_flag # 0
              /\ MainStep(mem, sfr, loc, "u376")
         [] pc = "u376" ->
              MainStep([mem EXCEPT !.uart_led_flag = 0], sfr, loc, "u377")
         [] pc = "u377" ->
              LET idx32 == IF mem.duty5_raw > 31 THEN 31 ELSE mem.duty5_raw IN
              MainStep([mem EXCEPT !.color = Shr(idx32, 1)], sfr,
                       [loc EXCEPT !.idx32 = idx32], "u378")
         [] pc = "u378" ->
              MainStep(mem, [sfr EXCEPT !.GIE = 0], [loc EXCEPT !.gie = sfr.GIE], "u379")
         [] pc = "u379" ->
              MainStep(mem, sfr, loc, "u380")
         [] pc = "u380" ->
              MainStep(mem, [sfr EXCEPT !.GIE = loc.gie], loc, "u382")
         [] pc = "u382" ->
              /\ mem.square_tick = 0
              /\ MainStep(mem, sfr, loc, "u375")
         [] OTHER -> FALSE

\* the state when main enters its loop
unit_Init ==
    /\ mem = [buffer |-> 0, state |-> 0, wave_mode |-> 1, duty5_raw |-> 0,
              duty_pct |-> 0, freq_index |-> 3, uart_led_flag |-> 0, color |-> 0,
              phase_idx |-> 0, last_sign |-> 0, t1_reload |-> 0, scale |-> 0,
              index200 |-> 0, cwg_flag |-> 0, duty_flag |-> 0, square_tick |-> 0]
    /\ sfr = [RA0PPS |-> 0, RA1PPS |-> 0, LATA0 |-> 0, LATA1 |-> 0,
              TRISA0 |-> 0, TRISA1 |-> 0, CWG_EN |-> 0, POLA |-> 0, POLB |-> 0,
              pwm |-> 0, PR2 |-> 199, T2CKPS |-> 0,
              TMR1ON |-> 0, TMR1IE |-> 0, TMR1IF |-> 0,
              TMR2ON |-> 1, TMR2IE |-> 0, TMR2IF |-> 0,
              GIE |-> 1]
    /\ pc = "u375"
    /\ loc = [idx32 |-> 0, gie |-> 0]
    /\ tx = <<>> /\ log = <<>>
    /\ step = "boot" /\ armed = "boot" /\ relaying = FALSE
    /\ cmd_duty5 = 0 /\ led = -1 /\ ncmd = 0

unit_Next ==
    \/ unit_Rx
    \/ unit_MainLoop

SpecUnit == unit_Init /\ [][unit_Next]_vars

-----------------------------------------------------------------------------
(* C22 *)

\* the main context is at its call of sendColor_SPI in the variants that send
\* from the main loop (Vibration_Unit.c line 380, unit.ino line 379)
DisplayPcs == {"L380", "u379"}

\* C22: every call of the LED send is made with the interrupt enable clear and
\* for a duty code other than the one last displayed (none is made when the
\* committed duty code is the displayed one); and when the main loop has
\* nothing left to do for the LED, the duty code last displayed is the one of
\* the last commit (0 after a STOP), so each committed change was displayed.
C22_DisplayOncePerChange ==
    /\ [][ (pc \in DisplayPcs /\ step' = "main" /\ pc' # pc)
             => (sfr.GIE = 0 /\ led' # led) ]_vars
    /\ []((pc \in {"L374", "u375"} /\ mem.uart_led_flag = 0)
            => (led = cmd_duty5 \/ (led = -1 /\ cmd_duty5 = 0)))

-----------------------------------------------------------------------------
(* C23 *)

\* C23: the interrupt that handles the second data byte of an addressed START
\* leaves the stage Idle; and a data byte that arrives with the stage Idle
\* when the last address byte was for this node (so after the two data bytes
\* of its START) is loaded into the transmitter unchanged, and changes no
\* global but buffer, no register, and not the armed engine or its duty code.
C23_StartTakesTwoBytes ==
    [][ /\ (step' = "rx" /\ ~IsAddr(mem'.buffer) /\ mem.state = 2)
           => (mem'.state = 0 /\ tx' = <<>>)
        /\ (step' = "rx" /\ ~IsAddr(mem'.buffer) /\ mem.state = 0 /\ ~relaying)
           => /\ tx' = << mem'.buffer >>
              /\ mem' = [mem EXCEPT !.buffer = mem'.buffer]
              /\ sfr' = sfr
              /\ armed' = armed /\ cmd_duty5' = cmd_duty5 ]_vars

\* a data byte that would be a valid duty byte (duty code 31) arrived after a
\* square START with duty code 10 had committed, and was relayed
C23_Witness ==
    /\ step = "rx" /\ ~relaying /\ armed = "square" /\ cmd_duty5 = 10
    /\ mem.buffer = 159 /\ tx = <<159>> /\ mem.state = 0
    /\ mem.duty5_raw = 10 /\ mem.duty_pct = 31 /\ mem.wave_mode = 0

-----------------------------------------------------------------------------
(* C24 *)

\* magnitude of table sample i, and the largest magnitude of the table
SampleMag(i) == IF SINE64_8[i + 1] >= 0 THEN SINE64_8[i + 1] ELSE -SINE64_8[i + 1]
SAMPLE_MAX == 127

\* x / y rounded to the nearest integer (x >= 0, y > 0)
RoundDiv(x, y) == (2 * x + y) \div (2 * y)

\* C24: after every tick of the armed sine engine with amplitude > 0 the duty
\* register holds top - duty_fwd, where duty_fwd is scale * |s| / 127 rounded
\* to the nearest integer and clamped to top, s the sample of the tick; so at
\* a peak sample (|s| = 127) duty_fwd is scale.
C24_SineDutyRounded ==
    (step = "t1" /\ armed = "sine" /\ mem.scale > 0) =>
        LET top == Top(sfr)
            r   == RoundDiv(mem.scale * SampleMag(mem.phase_idx), SAMPLE_MAX)
            duty_fwd == IF r >= top THEN top ELSE r
        IN  /\ sfr.pwm = top - duty_fwd
            /\ SampleMag(mem.phase_idx) = SAMPLE_MAX => sfr.pwm = top - mem.scale

-----------------------------------------------------------------------------
(* C25 *)

MIN_DRIVE_TKS == 2

\* the duty_fwd the Timer1 branch computes for amplitude scale and table index i
DutyFwd(scale, i) == Shr(scale * SampleMag(i) + 64, 7) % 65536

\* C25: after a tick of the armed sine engine with amplitude > 0 whose forward
\* duty does not reach above the minimum-drive floor (MIN_DRIVE_TKS), the duty
\* register is top (fully off), not top - duty_fwd.
C25_MinDriveFloor ==
    (step = "t1" /\ armed = "sine" /\ mem.scale > 0
       /\ DutyFwd(mem.scale, mem.phase_idx) <= MIN_DRIVE_TKS)
        => sfr.pwm = Top(sfr)

-----------------------------------------------------------------------------
(* C26 *)

\* C26: a tick of the armed sine engine whose sample is 0 (table index 0 or
\* 32) leaves last_sign as it was; with amplitude > 0 it calls neither
\* coast_both nor route_halfcycle, so the pins stay as they were and the
\* carrier stays on the leg it was on; with amplitude 0 it routes nothing.
C26_ZeroKeepsSign ==
    [][ (step' = "t1" /\ armed = "sine" /\ SINE64_8[mem'.phase_idx + 1] = 0
           /\ mem'.phase_idx # mem.phase_idx)
          => /\ mem'.last_sign = mem.last_sign
             /\ mem.scale > 0 => (log' = <<>> /\ Pins(sfr') = Pins(sfr))
             /\ mem.scale = 0 => CarrierLeg(sfr') = "none" ]_vars

\* the tick at table index 32, the zero crossing after the positive half, is
\* over: the carrier is still on the leg of the positive half
C26_Witness ==
    /\ step = "t1" /\ armed = "sine" /\ mem.scale > 0
    /\ mem.phase_idx = 32 /\ mem.last_sign = 1
    /\ CarrierLeg(sfr) = "RA0" /\ log = <<>> /\ sfr.pwm = Top(sfr)

-----------------------------------------------------------------------------
(* SpecTx: the receive interrupt with the transmitter it relays into. The      *)
(* transmit shift register takes FRAME_BITS bit times per byte (8N1) and TRMT  *)
(* reads 0 while it shifts. Here pc is the position of the interrupt routine:  *)
(* "none" when it is not running, "L168" inside the wait loop of UART_Write(). *)
(* No timer runs and the main loop is left out.                                *)

\* start bit, 8 data bits, stop bit
FRAME_BITS == 10

\* address bytes STOP, START, START for chain address 1; a data byte
TxRxBytes == {0, 1, 3, 138}

\* the bytes the handler of byte b loads into TX1REG
WritesOf(b) == ISR(Start0, TRUE, FALSE, b).tx

\* a byte arrives and its handler returns without a call of UART_Write
tx_RxQuiet ==
    /\ pc = "none"
    /\ \E b \in TxRxBytes :
          /\ WritesOf(b) = <<>>
          /\ RxByte(b, FALSE)
    /\ UNCHANGED ncmd

\* a byte arrives and its handler reaches while (!TRMT) {} in UART_Write
tx_RxEnterWrite ==
    /\ pc = "none" /\ sfr.GIE = 1
    /\ \E b \in TxRxBytes :
          /\ WritesOf(b) # <<>>
          /\ mem' = [mem EXCEPT !.buffer = b]
          /\ loc' = [d |-> WritesOf(b)[1], wait |-> 0]
    /\ pc' = "L168" /\ step' = "hw" /\ tx' = <<>> /\ log' = <<>>
    /\ UNCHANGED <<sfr, armed, relaying, cmd_duty5, led, ncmd>>

\* variant of the load that does not wait for TRMT
tx_Load_noWait ==
    /\ pc = "L168"
    /\ LET b  == mem.buffer
           s1 == ISR(Start0, TRUE, FALSE, b) IN
         /\ mem' = s1.mem /\ tx' = s1.tx /\ log' = s1.log
         /\ sfr' = [s1.sfr EXCEPT !.TRMT = 0, !.txbits = FRAME_BITS]
         /\ armed' = ArmedAfter(b, Start0, s1)
         /\ relaying' = IF IsAddr(b) THEN IsForward(b) ELSE relaying
    /\ pc' = "none" /\ step' = "rx"
    /\ UNCHANGED <<loc, cmd_duty5, led, ncmd>>

\* TRMT reads 1: the loop is left, TX1REG = d starts the shift register, and
\* the handler runs to its return
tx_Load ==
    /\ pc = "L168" /\ sfr.TRMT = 1
    /\ LET b  == mem.buffer
           s1 == ISR(Start0, TRUE, FALSE, b) IN
         /\ mem' = s1.mem /\ tx' = s1.tx /\ log' = s1.log
         /\ sfr' = [s1.sfr EXCEPT !.TRMT = 0, !.txbits = FRAME_BITS]
         /\ armed' = ArmedAfter(b, Start0, s1)
         /\ relaying' = IF IsAddr(b) THEN IsForward(b) ELSE relaying
    /\ pc' = "none" /\ step' = "rx"
    /\ UNCHANGED <<loc, cmd_duty5, led, ncmd>>

\* one bit time passes while the shift register is busy; after the last bit
\* TRMT reads 1 again
tx_BitTime ==
    /\ sfr.TRMT = 0
    /\ sfr' = [sfr EXCEPT !.txbits = @ - 1, !.TRMT = IF sfr.txbits = 1 THEN 1 ELSE 0]
    /\ loc' = IF pc = "L168" THEN [loc EXCEPT !.wait = @ + 1] ELSE loc
    /\ step' = "hw" /\ tx' = <<>> /\ log' = <<>>
    /\ UNCHANGED <<mem, pc, armed, relaying, cmd_duty5, led, ncmd>>

\* the state at the end of pwm_cwg_init(), transmitter idle
tx_Init ==
    /\ mem = [buffer |-> 0, state |-> 0, wave_mode |-> 1, duty5_raw |-> 0,
              duty_pct |-> 0, freq_index |-> 3, uart_led_flag |-> 0,
              color_index |-> 0, phase_idx |-> 0, last_sign |-> 0,
              t1_reload |-> 0, scale |-> 0, index200 |-> 0, cwg_flag |-> 0,
              duty_flag |-> 0, square_tick |-> 0]
    /\ sfr = [RA0PPS |-> 0, RA1PPS |-> 0, LATA0 |-> 0, LATA1 |-> 0,
              TRISA0 |-> 0, TRISA1 |-> 0, CWG_EN |-> 0, POLA |-> 0, POLB |-> 0,
              pwm |-> 0, PR2 |-> PR2_SINE, T2CKPS |-> 0,
              TMR1ON |-> 0, TMR1IE |-> 0, TMR1IF |-> 0,
              TMR2ON |-> 0, TMR2IE |-> 0, TMR2IF |-> 0,
              GIE |-> 1, OERR |-> 0, TRMT |-> 1, txbits |-> 0]
    /\ pc = "none"
    /\ loc = [d |-> 0, wait |-> 0]
    /\ tx = <<>> /\ log = <<>>
    /\ step = "boot" /\ armed = "boot" /\ relaying = FALSE
    /\ cmd_duty5 = 0 /\ led = -1 /\ ncmd = 0

tx_Next ==
    \/ tx_RxQuiet
    \/ tx_RxEnterWrite
    \/ tx_Load
    \/ tx_BitTime

\* the shift register keeps shifting and the processor keeps executing the loop
SpecTx ==
    tx_Init /\ [][tx_Next]_vars /\ WF_vars(tx_BitTime) /\ WF_vars(tx_Load)

-----------------------------------------------------------------------------
(* C27 *)

\* C27: TX1REG is loaded only by a handler that is in UART_Write and reads the
\* transmitter idle (TRMT = 1), with exactly one byte, after which the handler
\* returns; a handler never waits in UART_Write longer than one byte time
\* (FRAME_BITS bit times); and every handler that waits there returns.
C27_RelayWaitBounded ==
    /\ [][ (tx' # <<>>)
             => (pc = "L168" /\ sfr.TRMT = 1 /\ tx' = << loc.d >> /\ pc' = "none") ]_vars
    /\ [](pc = "L168" => loc.wait <= FRAME_BITS)
    /\ (pc = "L168" ~> pc = "none")

\* a data byte was relayed by a handler that had waited a whole byte time: it
\* came in just after the transmitter had been loaded
C27_Witness ==
    /\ step = "rx" /\ pc = "none" /\ tx = <<138>> /\ mem.buffer = 138
    /\ loc.wait = FRAME_BITS /\ sfr.TRMT = 0 /\ sfr.txbits = FRAME_BITS

-----------------------------------------------------------------------------
(* The ESP-NOW slave of Dev/G/3bytes_archives/equilibre.c: the receive         *)
(* callback OnDataRecv() (WiFi task) and the packet part of loop(). mem holds  *)
(* the queue globals; log is the sequence of packets delivered to the          *)
(* callback, tx the sequence of packets handed to processMotorCommands(); a    *)
(* packet is its bytes (data, a tag standing for them) and its length.         *)

QUEUE_SIZE == 20

\* the sender delivers at most this many packets
eq_MaxPackets == 21

\* lengths a packet may have: one or two 3-byte commands for the first two
\* packets, one command for the later ones
eq_Lengths(n) == IF n <= 2 THEN {3, 6} ELSE {3}

\* void OnDataRecv(recv_info, incomingData, len)
eq_OnDataRecv(m, incomingData, len) ==
    LET nextHead == (m.queueHead + 1) % QUEUE_SIZE IN
    IF nextHead # m.queueTail
    THEN [m EXCEPT !.packetQueue[m.queueHead] = [data |-> incomingData, length |-> len],
                   !.queueHead = nextHead,
                   !.hasData = TRUE]
    ELSE [m EXCEPT !.packetsDropped = @ + 1]

\* a packet is delivered to the callback
eq_Recv ==
    /\ ncmd < eq_MaxPackets
    /\ \E len \in eq_Lengths(ncmd + 1) :
          /\ mem' = eq_OnDataRecv(mem, ncmd + 1, len)
          /\ log' = Append(log, [data |-> ncmd + 1, length |-> len])
    /\ ncmd' = ncmd + 1 /\ step' = "recv"
    /\ UNCHANGED <<sfr, pc, loc, tx, armed, relaying, cmd_duty5, led>>

\* loop(): the packet block, one statement per step
eq_Loop ==
    /\ step' = "loop"
    /\ UNCHANGED <<sfr, loc, log, armed, relaying, cmd_duty5, led, ncmd>>
    /\ CASE pc = "q497" ->
              /\ pc' = IF mem.hasData /\ mem.queueTail # mem.queueHead
                       THEN "q508" ELSE "q497"
              /\ UNCHANGED <<mem, tx>>
         [] pc = "q508" ->
              /\ tx' = Append(tx, [data   |-> mem.packetQueue[mem.queueTail].data,
                                   length |-> mem.packetQueue[mem.queueTail].length])
              /\ pc' = "q515"
              /\ UNCHANGED mem
         [] pc = "q515" ->
              /\ mem' = [mem EXCEPT !.queueTail = (@ + 1) % QUEUE_SIZE,
                                    !.packetsProcessed = @ + 1]
              /\ pc' = "q519"
              /\ UNCHANGED tx
         [] pc = "q519" ->
              /\ pc' = IF mem.queueTail = mem.queueHead THEN "q520" ELSE "q497"
              /\ UNCHANGED <<mem, tx>>
         [] pc = "q520" ->
              /\ mem' = [mem EXCEPT !.hasData = FALSE]
              /\ pc' = "q497"
              /\ UNCHANGED tx
         [] OTHER -> FALSE

\* the state when setup() has registered the callback
eq_Init ==
    /\ mem = [packetQueue |-> [i \in 0 .. QUEUE_SIZE - 1 |-> [data |-> 0, length |-> 0]],
              queueHead |-> 0, queueTail |-> 0, hasData |-> FALSE,
              packetsDropped |-> 0, packetsProcessed |-> 0]
    /\ sfr = [GIE |-> 1]
    /\ pc = "q497"
    /\ loc = [half |-> 0]
    /\ tx = <<>> /\ log = <<>>
    /\ step = "boot" /\ armed = "boot" /\ relaying = FALSE
    /\ cmd_duty5 = 0 /\ led = -1 /\ ncmd = 0

eq_Next ==
    \/ eq_Recv
    \/ eq_Loop

SpecQueue == eq_Init /\ [][eq_Next]_vars

\* the packets in the queue, oldest first
eq_Queued ==
    LET used == (mem.queueHead - mem.queueTail + QUEUE_SIZE) % QUEUE_SIZE IN
    [i \in 1 .. used |-> mem.packetQueue[(mem.queueTail + i - 1) % QUEUE_SIZE]]

\* the queued packets that were not handed to processMotorCommands yet (at
\* line 515 the packet at queueTail has just been handed)
eq_Pending == IF pc = "q515" THEN Tail(eq_Queued) ELSE eq_Queued

-----------------------------------------------------------------------------
(* C28 *)

\* C28: at every moment the packets handed to processMotorCommands so far,
\* followed by the packets waiting in the queue, are exactly the packets
\* delivered to the receive callback so far, in arrival order and each with
\* the length and bytes it arrived with: none dropped, none handed twice.
C28_QueueDropsNothing == tx \o eq_Pending = log

-----------------------------------------------------------------------------
(* SpecChain: a chain of nodes that all run the firmware; the transmitter of   *)
(* node n is wired to the receiver of node n + 1. Here mem and sfr are indexed *)
(* by the position of the node, tx[n] holds the bytes on the wire into node n  *)
(* (tx[ChainLen]: what leaves the last node), log[n] the bytes node n has      *)
(* received of the current command, and loc the command the host is sending    *)
(* with the state of every node when it began. The host sends well-formed      *)
(* commands, one when the chain has gone quiet after the one before. No timer  *)
(* runs.                                                                       *)

\* number of nodes in the chain
ChainLen == 3

\* the host sends at most this many commands down the chain
ChainCmds == 3

Nodes == 0 .. ChainLen - 1

ChainDutyBytes == {138}
ChainWaveFreqBytes == {131, 138}

\* the bytes of the command with chain address k: the address byte, and for a
\* START the duty byte d1 and the waveform/frequency byte d2
CommandBytes(k, start, d1, d2) ==
    IF start = 1 THEN << 2 * k + 1, d1, d2 >> ELSE << 2 * k >>

\* node state after the receive interrupt has handled the bytes of seq bs
RECURSIVE AfterBytes(_, _)
AfterBytes(s, bs) ==
    IF bs = <<>> THEN s
    ELSE AfterBytes(ISR([s EXCEPT !.tx = <<>>, !.log = <<>>], TRUE, FALSE, Head(bs)),
                    Tail(bs))

NodeInit ==
    [mem |-> [buffer |-> 0, state |-> 0, wave_mode |-> 1, duty5_raw |-> 0,
              duty_pct |-> 0, freq_index |-> 3, uart_led_flag |-> 0,
              color_index |-> 0, phase_idx |-> 0, last_sign |-> 0,
              t1_reload |-> 0, scale |-> 0, index200 |-> 0, cwg_flag |-> 0,
              duty_flag |-> 0, square_tick |-> 0],
     sfr |-> [RA0PPS |-> 0, RA1PPS |-> 0, LATA0 |-> 0, LATA1 |-> 0,
              TRISA0 |-> 0, TRISA1 |-> 0, CWG_EN |-> 0, POLA |-> 0, POLB |-> 0,
              pwm |-> 0, PR2 |-> PR2_SINE, T2CKPS |-> 0,
              TMR1ON |-> 0, TMR1IE |-> 0, TMR1IF |-> 0,
              TMR2ON |-> 0, TMR2IE |-> 0, TMR2IF |-> 0,
              GIE |-> 1, OERR |-> 0]]

\* nothing is on a wire and the host has sent its command completely
ChainQuiet ==
    /\ \A n \in 0 .. ChainLen : tx[n] = <<>>
    /\ loc.pos = Len(loc.bytes)

\* the host begins a command for the node at position k
ch_HostCommand ==
    /\ ChainQuiet
    /\ ncmd < ChainCmds
    /\ \E k \in Nodes, start \in {0, 1}, d1 \in ChainDutyBytes, d2 \in ChainWaveFreqBytes :
          loc' = [k |-> k, bytes |-> CommandBytes(k, start, d1, d2), pos |-> 0,
                  mem0 |-> mem, sfr0 |-> sfr]
    /\ log' = [n \in Nodes |-> <<>>]
    /\ step' = "host" /\ ncmd' = ncmd + 1
    /\ UNCHANGED <<mem, sfr, pc, tx, armed, relaying, cmd_duty5, led>>

\* the host puts the next byte of its command on the wire into node 0
ch_HostSend ==
    /\ loc.pos < Len(loc.bytes)
    /\ tx' = [tx EXCEPT ![0] = Append(@, loc.bytes[loc.pos + 1])]
    /\ loc' = [loc EXCEPT !.pos = @ + 1]
    /\ step' = "host"
    /\ UNCHANGED <<mem, sfr, pc, log, armed, relaying, cmd_duty5, led, ncmd>>

\* the receive interrupt of node n handles the next byte on its wire; what it
\* loads into its transmitter goes onto the wire into node n + 1
ch_NodeRx ==
    /\ \E n \in Nodes :
          /\ tx[n] # <<>>
          /\ sfr[n].GIE = 1
          /\ LET b  == Head(tx[n])
                 s1 == ISR(Mach(mem[n], sfr[n], <<>>, <<>>), TRUE, FALSE, b) IN
               /\ mem' = [mem EXCEPT ![n] = s1.mem]
               /\ sfr' = [sfr EXCEPT ![n] = s1.sfr]
               /\ tx' = [tx EXCEPT ![n] = Tail(@), ![n + 1] = @ \o s1.tx]
               /\ log' = [log EXCEPT ![n] = Append(@, b)]
    /\ step' = "rx"
    /\ UNCHANGED <<pc, loc, armed, relaying, cmd_duty5, led, ncmd>>

ch_Init ==
    /\ mem = [n \in Nodes |-> NodeInit.mem]
    /\ sfr = [n \in Nodes |-> NodeInit.sfr]
    /\ tx = [n \in 0 .. ChainLen |-> <<>>]
    /\ log = [n \in Nodes |-> <<>>]
    /\ loc = [k |-> 0, bytes |-> <<>>, pos |-> 0,
              mem0 |-> [n \in Nodes |-> NodeInit.mem],
              sfr0 |-> [n \in Nodes |-> NodeInit.sfr]]
    /\ pc = "chain"
    /\ step = "boot" /\ armed = "boot" /\ relaying = FALSE
    /\ cmd_duty5 = 0 /\ led = -1 /\ ncmd = 0

ch_Next ==
    \/ ch_HostCommand
    \/ ch_HostSend
    \/ ch_NodeRx

SpecChain == ch_Init /\ [][ch_Next]_vars

\* what the firmware keeps of a command and of its engines (all globals but
\* the receive buffer and the stage) and every register
NodeCommandEngine(m, r) == << [m EXCEPT !.buffer = 0, !.state = 0], r >>

-----------------------------------------------------------------------------
(* C29 *)

\* C29: for a command the host sends with chain address k: at every moment
\* every node at another position than k has the command and engine state it
\* had when the host began; what a node at a position j below k has received
\* is a prefix of the command with chain address k - j (one decrement per
\* hop); and when the chain has gone quiet each node below k has received the
\* whole command with address k - j, node k has received it with address 0 and
\* is in the state a node on its own is in after that command, the nodes
\* beyond k have received no byte, and no byte has left the chain.
C29_ChainAddressing ==
    loc.bytes # <<>> =>
        LET k     == loc.k
            start == loc.bytes[1] % 2
            cmdAt(j) == << 2 * (k - j) + start >> \o Tail(loc.bytes)
        IN  /\ \A j \in Nodes \ {k} :
                  NodeCommandEngine(mem[j], sfr[j])
                      = NodeCommandEngine(loc.mem0[j], loc.sfr0[j])
            /\ \A j \in Nodes :
                  /\ j <= k => /\ Len(log[j]) <= Len(loc.bytes)
                               /\ log[j] = SubSeq(cmdAt(j), 1, Len(log[j]))
                  /\ j > k => log[j] = <<>>
            /\ tx[ChainLen] = <<>>
            /\ ChainQuiet =>
                  /\ \A j \in Nodes : j <= k => log[j] = cmdAt(j)
                  /\ LET s1 == AfterBytes(Mach(loc.mem0[k], loc.sfr0[k], <<>>, <<>>),
                                          cmdAt(k))
                     IN  mem[k] = s1.mem /\ sfr[k] = s1.sfr

\* a square START (duty code 10) for the last node has gone down the chain:
\* the last node is armed with it, the two nodes before it are as they were
C29_Witness ==
    /\ ChainQuiet /\ loc.k = 2 /\ loc.bytes = <<5, 138, 131>>
    /\ log[0] = <<5, 138, 131>> /\ log[1] = <<3, 138, 131>> /\ log[2] = <<1, 138, 131>>
    /\ mem[2].duty_pct = 31 /\ mem[2].wave_mode = 0 /\ sfr[2].TMR2IE = 1
    /\ mem[0].duty_pct = 0 /\ mem[1].duty_pct = 0 /\ sfr[1].TMR2IE = 0

-----------------------------------------------------------------------------
(* C30 *)

\* what the sine engine drives the bridge with: last_sign, the CWG polarity
\* and enable, the direction of the two pins and the duty register
SineDrive == <<mem.last_sign, sfr.POLA, sfr.POLB, sfr.CWG_EN,
               sfr.TRISA0, sfr.TRISA1, sfr.pwm>>

\* C30: while the sine engine is armed no statement of square_processing()
\* that the main loop executes (an evaluation that was under way, or one
\* started from a square_tick left set, when the sine START committed) changes
\* last_sign, the CWG polarity or enable, the pin directions or the duty
\* register.
C30_StaleWindowSparesSine ==
    [][ (armed = "sine" /\ armed' = "sine" /\ step' = "main" /\ pc \in SquarePcs)
          => UNCHANGED SineDrive ]_vars

-----------------------------------------------------------------------------
(* C31 *)

\* SpecRestart: as SpecSquare, and the host sends a second square START at any
\* time after the first has committed
RestartDutyBytes == {129}
RestartWaveFreqBytes == {135}

RxSquareRestart ==
    \E b \in {1} \cup SquareDutyBytes \cup SquareWaveFreqBytes :
       /\ CASE mem.state = 0 -> b = 1 /\ ncmd < 2
            [] mem.state = 1 -> b \in (IF ncmd = 1 THEN SquareDutyBytes
                                                   ELSE RestartDutyBytes)
            [] OTHER         -> b \in (IF ncmd = 1 THEN SquareWaveFreqBytes
                                                   ELSE RestartWaveFreqBytes)
       /\ RxByte(b, FALSE)
       /\ ncmd' = IF IsAddr(b) THEN ncmd + 1 ELSE ncmd

NextRestart ==
    \/ RxSquareRestart
    \/ TimerIsr
    \/ T2Paced
    \/ MainBoot
    \/ MainLed
    \/ MainSquareFlag
    \/ SquareEvalOn
    \/ SquareOn
    \/ SquareOff

SpecRestart == Init /\ [][NextRestart]_vars


\* the square engine is ON: its window evaluation has enabled the CWG and
\* written the full-scale duty
SquareIsOn(m, r) == m.cwg_flag = 1 /\ m.duty_flag = 1 /\ r.CWG_EN = 1

\* C31: whenever the armed square engine is ON after a window evaluation, both
\* leg pins are outputs, also in the ON windows that follow an OFF window; and
\* the interrupt that commits a START leaves both leg pins outputs, also when
\* the START follows a square run.
C31_LegsEnabledWhenOn ==
    /\ []((armed = "square" /\ step = "main" /\ pc = "L387" /\ SquareIsOn(mem, sfr))
            => PinsDriven(sfr))
    /\ [][ (step' = "rx" /\ ~IsAddr(mem'.buffer) /\ mem.state = 2)
             => PinsDriven(sfr') ]_vars

-----------------------------------------------------------------------------
(* C32 *)

\* the main context is inside the deferred window evaluation, the clearing of
\* the flag (line 387) not yet done
EvalPcs == SquarePcs \cup {"L387"}

\* C32: a carrier tick of the armed square engine that is served while the
\* main context is inside the window evaluation (or about to clear the flag
\* after it) is still evaluated: the main context's next step is not one that
\* leaves square_tick clear.
C32_TickDuringEvalKept ==
    [][ (armed = "square" /\ step = "t2" /\ pc \in EvalPcs /\ mem.square_tick = 1
           /\ step' = "main")
          => (mem'.square_tick = 1) ]_vars

-----------------------------------------------------------------------------
(* C33 *)

\* C33: the duty code the main loop picks up for the status LED (line 377) is
\* the duty code of the last fully committed command (0 after a STOP or at
\* boot), and the colour sent at line 380 is the one picked up; a first data
\* byte that has not committed (or never will) is never displayed.
C33_LedShowsCommitted ==
    /\ [][ (pc = "L377" /\ step' = "main" /\ pc' = "L379")
             => (mem'.color_index = cmd_duty5) ]_vars
    /\ [][ (pc = "L380" /\ step' = "main" /\ pc' = "L381")
             => (led' = mem.color_index) ]_vars

-----------------------------------------------------------------------------
(* C34 *)

(* SpecAmp: the duty computation of the sine tick over its whole input range. *)
(* The sine engine is armed by a START with any of the 32 duty codes, or runs *)
(* with any amplitude scale of 0..top, and ticks freely through the table.    *)

AllDutyCodes == 0 .. 31

\* pb_son.c: duty_max = (PR2 + 1) * 4 - 1 with PR2 = 199, the floor, the
\* amplitude scale of lra_set_amp and the value the Timer1 branch passes to
\* set_pwm10 (uint16 arithmetic), as CCPR1H:CCPR1L hold it
pb_duty_max == ((PR2_SINE + 1) * 4 - 1) % 65536
pb_MIN_DRIVE_TICKS == 2

pb_lra_set_amp(pct0) ==
    LET pct == IF pct0 > 100 THEN 100 ELSE pct0
    IN  ((pb_duty_max * pct) \div 100) % 65536

pb_set_pwm10(d) == (Shr(d, 8) % 256) * 256 + Low(d, 8)

pb_SineDuty(sc, i) ==
    LET duty_forward == Shr(sc * SampleMag(i) + 64, 7) % 65536
    IN  IF duty_forward <= pb_MIN_DRIVE_TICKS
        THEN pb_set_pwm10(pb_duty_max)
        ELSE pb_set_pwm10((pb_duty_max - duty_forward) % 65536)

amp_Init ==
    \E d5 \in AllDutyCodes :
       LET s == AfterBytes(Mach(NodeInit.mem, NodeInit.sfr, <<>>, <<>>),
                            << 1, 128 + d5, 138 >>) IN
       /\ \E sc \in 0 .. Top(s.sfr) :
             /\ (d5 # 31) => sc = s.mem.scale
             /\ mem = [s.mem EXCEPT !.scale = sc]
       /\ sfr = s.sfr
       /\ pc = "L374"
       /\ loc = [on |-> 0, half |-> 0, gie |-> 0]
       /\ tx = <<>> /\ log = <<>>
       /\ step = "rx" /\ armed = "sine" /\ relaying = FALSE
       /\ cmd_duty5 = d5 /\ led = -1 /\ ncmd = 1

amp_Next ==
    \/ T1Free
    \/ TimerIsr

SpecAmp == amp_Init /\ [][amp_Next]_vars

\* C34: on every tick of the armed sine engine the amplitude scale is within
\* 0..top, the forward duty computed from it and the sample of the tick does
\* not exceed top, and the duty register is left within 0..top: top - duty_fwd
\* when the amplitude is > 0, without wrap. The same holds for the value
\* pb_son.c writes (duty_max - duty_forward, or duty_max below the floor), and
\* the scale both lra_set_amp compute for the committed duty_pct is within range.
C34_DutyInRange ==
    [][ (step' = "t1" /\ armed = "sine")
          => LET top == Top(sfr)
                 df  == DutyFwd(mem.scale, mem'.phase_idx)
             IN  /\ mem.scale \in 0 .. top
                 /\ df <= top
                 /\ sfr'.pwm \in 0 .. top
                 /\ (mem.scale > 0) => (sfr'.pwm = top - df)
                 /\ pb_lra_set_amp(mem.duty_pct) \in 0 .. pb_duty_max
                 /\ pb_SineDuty(mem.scale, mem'.phase_idx) \in 0 .. pb_duty_max ]_vars

\* the tick at the positive peak (table index 16) with the largest amplitude
\* scale, top itself: the forward duty is 793 of 799 and the register holds 6
C34_Witness ==
    /\ step = "t1" /\ armed = "sine" /\ mem.phase_idx = 16
    /\ mem.scale = Top(sfr) /\ Top(sfr) = 799
    /\ DutyFwd(mem.scale, 16) = 793 /\ sfr.pwm = 6

-----------------------------------------------------------------------------
(* C35 *)

\* C35: whenever loop() is about to test the queue (line 497) and the queue is
\* not empty (queueTail # queueHead), hasData is true, so the head packet is
\* taken out in this very pass, also when no further packet arrives.
C35_HasDataWhileQueued ==
    (pc = "q497" /\ mem.queueTail # mem.queueHead) => mem.hasData

-----------------------------------------------------------------------------
(* The USB-serial controller of unnamed/part_011: loop() reads a batch of      *)
(* 5-byte timed commands, queues them and sends the due ones. mem holds        *)
(* command_queue and batch_start_time, sfr.millis the millisecond clock, tx    *)
(* the commands handed to sendCommand() so far, log the commands queued so far *)
(* (arrival order), ncmd their number; loc.t0 is the clock at the entry of     *)
(* delay(1). A queued command carries its arrival number as id.                *)

\* the host sends at most this many commands, with delays up to tq_MaxDelay ms,
\* and the clock is followed up to tq_MaxTime ms
tq_MaxCmds == 3
tq_MaxDelay == 2
tq_MaxTime == 4

\* 5-byte commands of the host: serial group 0, stop or start, actuator 1,
\* duty 1, 16-bit little-endian delay
tq_Frames == { << s, 1, 8, d, 0 >> : s \in {0, 1}, d \in 0 .. tq_MaxDelay }

tq_Batches == { << f >> : f \in tq_Frames } \cup { << f, g >> : f, g \in tq_Frames }

\* queueTimedCommand(): execute_time = batch_start_time + delay_ms, push_back
tq_queueTimedCommand(m, n, sg, addr, is_start, duty, freq, wave, delay_ms) ==
    [m EXCEPT !.command_queue =
        Append(@, [execute_time |-> m.batch_start_time + delay_ms,
                   serial_group_number |-> sg, addr |-> addr, is_start |-> is_start,
                   duty |-> duty, freq |-> freq, wave |-> wave, id |-> n])]

\* processSerialData(): the loop body for the 5 bytes of one command
tq_processFrame(m, n, f) ==
    IF f[1] = 255 THEN m
    ELSE tq_queueTimedCommand(m, n, Low(Shr(f[1], 2), 4), Low(f[2], 6), Low(f[1], 1),
                              Low(Shr(f[3], 3), 4), Low(Shr(f[3], 1), 2), Low(f[3], 1),
                              (f[4] + f[5] * 256) % 65536)

\* processSerialData(data, length) for a batch of whole commands
RECURSIVE tq_processSerialData(_, _, _)
tq_processSerialData(m, n, data) ==
    IF data = <<>> THEN m
    ELSE tq_processSerialData(tq_processFrame(m, n + 1, Head(data)), n + 1, Tail(data))

\* executeQueuedCommands(): one scan of the queue from begin() to end() at
\* current_time; a due command is sent and erased, the others are stepped over
RECURSIVE tq_executeQueuedCommands(_, _)
tq_executeQueuedCommands(q, current_time) ==
    IF q = <<>> THEN [sent |-> <<>>, left |-> <<>>]
    ELSE LET r == tq_executeQueuedCommands(Tail(q), current_time) IN
         IF current_time >= Head(q).execute_time
         THEN [sent |-> << Head(q) >> \o r.sent, left |-> r.left]
         ELSE [sent |-> r.sent, left |-> << Head(q) >> \o r.left]

\* the millisecond clock advances
tq_Tick ==
    /\ sfr.millis < tq_MaxTime
    /\ sfr' = [sfr EXCEPT !.millis = @ + 1]
    /\ step' = "tick"
    /\ UNCHANGED <<mem, pc, loc, tx, log, armed, relaying, cmd_duty5, led, ncmd>>

\* loop(): the serial block (lines 70-85), executeQueuedCommands() (line 88)
\* and delay(1) (line 90)
tq_Loop ==
    /\ step' = "loop"
    /\ UNCHANGED <<sfr, armed, relaying, cmd_duty5, led>>
    /\ CASE pc = "t70" ->
              /\ pc' = "t88"
              /\ \/ UNCHANGED <<mem, log, ncmd>>
                 \/ \E data \in tq_Batches :
                       /\ ncmd + Len(data) <= tq_MaxCmds
                       /\ mem' = tq_processSerialData(
                                    [mem EXCEPT !.batch_start_time = sfr.millis],
                                    ncmd, data)
                       /\ log' = mem'.command_queue
                       /\ ncmd' = ncmd + Len(data)
              /\ UNCHANGED <<tx, loc>>
         [] pc = "t88" ->
              LET r == tq_executeQueuedCommands(mem.command_queue, sfr.millis) IN
              /\ mem' = [mem EXCEPT !.command_queue = r.left]
              /\ tx' = tx \o r.sent
              /\ loc' = [loc EXCEPT !.t0 = sfr.millis]
              /\ pc' = "t90"
              /\ UNCHANGED <<log, ncmd>>
         [] pc = "t90" ->
              /\ sfr.millis >= loc.t0 + 1
              /\ pc' = "t70"
              /\ UNCHANGED <<mem, tx, log, loc, ncmd>>
         [] OTHER -> FALSE

\* the state at the end of setup()
tq_Init ==
    /\ mem = [command_queue |-> <<>>, batch_start_time |-> 0]
    /\ sfr = [millis |-> 0]
    /\ pc = "t70"
    /\ loc = [t0 |-> 0]
    /\ tx = <<>> /\ log = <<>>
    /\ step = "boot" /\ armed = "boot" /\ relaying = FALSE
    /\ cmd_duty5 = 0 /\ led = -1 /\ ncmd = 0

tq_Next ==
    \/ tq_Tick
    \/ tq_Loop

SpecTimed == tq_Init /\ [][tq_Next]_vars

-----------------------------------------------------------------------------
(* C36 *)

\* C36: the commands handed to sendCommand() so far are in non-decreasing
\* order of execute_time, and in arrival order among equal execute_time.
C36_SentInTimeOrder ==
    \A i, j \in 1 .. Len(tx) :
       (i < j) => \/ tx[i].execute_time < tx[j].execute_time
                  \/ (tx[i].execute_time = tx[j].execute_time /\ tx[i].id < tx[j].id)

-----------------------------------------------------------------------------
(* The USB-to-chain bridge of unnamed/part_004: loop() moves the bytes of the  *)
(* host stream into a ring buffer and hands whole 4-byte frames to             *)
(* processFrame(). mem holds rxbuf, rx_head and rx_tail; a buffered byte is    *)
(* its value (val) with its offset in the host stream (off); ncmd is the       *)
(* offset of the next byte Serial.read() returns, loc.f the frame last peeked, *)
(* log the stream offsets of the frame handed to processFrame() in this step,  *)
(* tx the bytes that call wrote to the chain.                                  *)

RXBUF_SIZE == 512
STOP_RETRIES == 2
subchain_num == 4

\* the host stream is followed up to this offset
br_MaxBytes == 513

\* the host sends frames for group 0: START for even frames, STOP for odd ones,
\* actuator = frame number mod 8, duty 10, frequency 3
br_StreamByte(n) ==
    CASE n % 4 = 0 -> (n \div 4) % 2
      [] n % 4 = 1 -> (n \div 4) % 8
      [] n % 4 = 2 -> 10
      [] OTHER     -> 3

br_rb_count(m) ==
    IF m.rx_head >= m.rx_tail THEN m.rx_head - m.rx_tail
    ELSE RXBUF_SIZE - (m.rx_tail - m.rx_head)

\* rb_push(b): drops b when the buffer is full
br_rb_push(m, b) ==
    LET next == (m.rx_head + 1) % RXBUF_SIZE IN
    IF next = m.rx_tail THEN m
    ELSE [m EXCEPT !.rxbuf[m.rx_head] = b, !.rx_head = next]

\* rb_peek4(out4): the 4 bytes from rx_tail on
br_rb_peek4(m) == [i \in 1 .. 4 |-> m.rxbuf[(m.rx_tail + i - 1) % RXBUF_SIZE]]

br_rb_drop4(m) == [m EXCEPT !.rx_tail = (@ + 4) % RXBUF_SIZE]

br_sendStart3(addr_in_chain, duty5, freq3) ==
    << ((Low(addr_in_chain, 3) * 2) % 256) + 1, 128 + Low(duty5, 5), 128 + Low(freq3, 3) >>

br_sendStop(addr_in_chain) ==
    [i \in 1 .. STOP_RETRIES |-> (Low(addr_in_chain, 3) * 2) % 256]

\* processFrame(f): the bytes written to the chain of the frame's group
br_processFrame(f) ==
    LET start == Low(f[1].val, 1)
        group == Low(Shr(f[1].val, 1), 4)
        addr  == Low(Low(f[2].val, 6), 3)
        duty5 == Low(f[3].val, 5)
        freq3 == Low(f[4].val, 3)
    IN  IF group >= subchain_num THEN <<>>
        ELSE IF start # 0 THEN br_sendStart3(addr, duty5, freq3)
        ELSE br_sendStop(addr)

\* loop(): the ingest loop (lines 126-129), the frame loop (lines 133-136) and
\* delay(1) (line 139), one iteration of a loop per step
br_Loop ==
    /\ UNCHANGED <<sfr, armed, relaying, cmd_duty5, led>>
    /\ CASE pc = "b126" ->
              \/ /\ ncmd < br_MaxBytes
                 /\ mem' = br_rb_push(mem, [off |-> ncmd, val |-> br_StreamByte(ncmd)])
                 /\ ncmd' = ncmd + 1
                 /\ step' = "read" /\ pc' = "b126"
                 /\ tx' = <<>> /\ log' = <<>>
                 /\ UNCHANGED loc
              \/ /\ step' = "idle" /\ pc' = "b133"
                 /\ tx' = <<>> /\ log' = <<>>
                 /\ UNCHANGED <<mem, loc, ncmd>>
         [] pc = "b133" ->
              IF br_rb_count(mem) < 4
              THEN /\ step' = "idle" /\ pc' = "b139"
                   /\ tx' = <<>> /\ log' = <<>>
                   /\ UNCHANGED <<mem, loc, ncmd>>
              ELSE LET f == br_rb_peek4(mem) IN
                   /\ loc' = [loc EXCEPT !.f = f]
                   /\ tx' = br_processFrame(f)
                   /\ log' = [i \in 1 .. 4 |-> f[i].off]
                   /\ mem' = br_rb_drop4(mem)
                   /\ step' = "frame" /\ pc' = "b133"
                   /\ UNCHANGED ncmd
         [] pc = "b139" ->
              /\ step' = "idle" /\ pc' = "b126"
              /\ tx' = <<>> /\ log' = <<>>
              /\ UNCHANGED <<mem, loc, ncmd>>
         [] OTHER -> FALSE

\* the state at the end of setup()
br_Init ==
    /\ mem = [rxbuf |-> [i \in 0 .. RXBUF_SIZE - 1 |-> [off |-> -1, val |-> 0]],
              rx_head |-> 0, rx_tail |-> 0]
    /\ sfr = [GIE |-> 1]
    /\ pc = "b126"
    /\ loc = [f |-> <<>>]
    /\ tx = <<>> /\ log = <<>>
    /\ step = "boot" /\ armed = "boot" /\ relaying = FALSE
    /\ cmd_duty5 = 0 /\ led = -1 /\ ncmd = 0

br_Next == br_Loop

SpecBridge == br_Init /\ [][br_Next]_vars

-----------------------------------------------------------------------------
(* C37 *)

\* C37: every frame handed to processFrame() is four consecutive bytes of the
\* host stream starting at an offset that is a multiple of 4.
C37_FramesAligned ==
    (step = "frame") =>
        /\ log[1] % 4 = 0
        /\ \A i \in 2 .. 4 : log[i] = log[1] + i - 1

-----------------------------------------------------------------------------
(* C38 *)

(* SpecEngines: the host sends one START, sine or square, and the engine it    *)
(* arms runs through whole periods of the table or whole 200-tick windows, the *)
(* main loop keeping up with Timer2.                                           *)

RxOneStart ==
    \E b \in {1} \cup SineDutyBytes \cup SineWaveFreqBytes \cup SquareWaveFreqBytes :
       /\ CASE mem.state = 0 -> b = 1 /\ ncmd = 0
            [] mem.state = 1 -> b \in SineDutyBytes
            [] OTHER         -> b \in SineWaveFreqBytes \cup SquareWaveFreqBytes
       /\ RxByte(b, FALSE)
       /\ ncmd' = IF IsAddr(b) THEN ncmd + 1 ELSE ncmd

NextEngines ==
    \/ RxOneStart
    \/ TimerIsr
    \/ T1Free
    \/ T2Paced
    \/ MainBoot
    \/ MainLed
    \/ MainSquareFlag
    \/ SquareEvalOn
    \/ SquareOn
    \/ SquareOff

SpecEngines == Init /\ [][NextEngines]_vars

\* C38: phase_idx is always within 0..SINE_LEN-1 and index200 within
\* 0..WINDOW_LEN-1; a Timer1 tick of the armed sine engine advances phase_idx
\* by exactly one modulo SINE_LEN, a Timer2 tick of the armed square engine
\* advances index200 by exactly one modulo WINDOW_LEN, neither touches the
\* other index, and no step but a tick or a received byte changes either.
C38_IndicesAdvance ==
    /\ [](mem.phase_idx \in 0 .. SINE_LEN - 1 /\ mem.index200 \in 0 .. WINDOW_LEN - 1)
    /\ [][ (step' = "t1" /\ armed = "sine")
             => /\ mem'.phase_idx = (mem.phase_idx + 1) % SINE_LEN
                /\ mem'.index200 = mem.index200 ]_vars
    /\ [][ (step' = "t2" /\ armed = "square")
             => /\ mem'.index200 = (mem.index200 + 1) % WINDOW_LEN
                /\ mem'.phase_idx = mem.phase_idx ]_vars
    /\ [][ (step' \notin {"t1", "t2", "rx"})
             => (mem'.phase_idx = mem.phase_idx /\ mem'.index200 = mem.index200) ]_vars

\* the Timer2 tick that wraps the window: position 199 -> 0, after the second
\* half of the window was evaluated
C38_Witness ==
    /\ step = "t2" /\ armed = "square" /\ mem.index200 = 0
    /\ mem.square_tick = 1 /\ mem.last_sign = -1 /\ mem.duty_pct > 0

====
